---------------------------- MODULE Spec2Model ----------------------------
(***************************************************************************)
(* A model of teuthology-metrics: the cron orchestrator (scheduler.py),    *)
(* the per-invocation logging reconfiguration (src/utils.py), the failure  *)
(* template miner (src/miner.py), the ingestion path (src/processer.py,    *)
(* src/ingest.py) and document sanitization (src/ingest.py).               *)
(***************************************************************************)
EXTENDS Integers, Sequences, FiniteSets, TLC

(***************************************************************************)
(* Orchestrator: scheduler.py                                              *)
(***************************************************************************)

\* scheduler.py:19-20
MISFIRE_GRACE_SECONDS == 3600
MaxInstancesTwo == 1 + 1
MAX_INSTANCES == 1

\* The two job classes: run_task (ingestion) and run_report (report), each
\* added to its own BackgroundScheduler.
Classes == {"task", "report"}

\* Worker threads of one scheduler's executor that the model follows.
PoolSlots == 2
Slots == 1..PoolSlots

\* How late (in seconds) the scheduler thread hands a due run time to the
\* executor, measured against the run time kept after coalescing.
LateValues == {0, MISFIRE_GRACE_SECONDS, MISFIRE_GRACE_SECONDS + 1}

\* The FileHandler created by main()'s set_logging_env, and the one created
\* by the job running in worker slot s of class c.
MainHandler == <<"main", 0>>
JobHandler(c, s) == <<c, s>>

VARIABLES
    schedState,      \* [Classes -> {"RUNNING","STOPPED"}], BaseScheduler.state
    inst,            \* [Classes -> [Slots -> worker record]], the executors' workers
    ev,              \* [Classes -> last scheduler event of the class]
    mainPc,          \* position of the main thread
    errLogged,       \* the exception logged as "Error during scheduler shutdown", or "none"
    startedAfterSig, \* classes whose job function was started by a trigger fired after the signal
    handlers,        \* handlers of the shared logger "teuthology-metrics", in order
    closedH,         \* handlers that have been closed
    jobLog           \* [Classes -> "error" when the class's last entered job logged its JOB ERROR line]

schedVars == <<schedState, inst, ev, mainPc, errLogged, startedAfterSig,
               handlers, closedH, jobLog>>

IdleWorker == [pc |-> "idle", late |-> 0, afterSig |-> FALSE, snap |-> <<>>]
NoEvent == [kind |-> "none", late |-> 0, busy |-> FALSE]

\* executor._instances[job.id]: submitted and not yet released workers
Instances(c) == Cardinality({s \in Slots : inst[c][s].pc # "idle"})

\* workers of class c that are inside the job function
InJob(c) == {s \in Slots : inst[c][s].pc \in {"setlog_loop", "setlog_add", "body"}}

InSetLog(c) == {s \in Slots : inst[c][s].pc \in {"setlog_loop", "setlog_add"}}

FreeSlot(c) == CHOOSE s \in Slots : /\ inst[c][s].pc = "idle"
                                   /\ \A t \in Slots : t < s => inst[c][t].pc # "idle"

SeqWithout(q, h) == SelectSeq(q, LAMBDA x : x # h)

\* state after main() has run set_logging_env, started both schedulers,
\* installed the signal handlers and reached signal.pause()
InitSched ==
    /\ schedState = [c \in Classes |-> "RUNNING"]
    /\ inst = [c \in Classes |-> [s \in Slots |-> IdleWorker]]
    /\ ev = [c \in Classes |-> NoEvent]
    /\ mainPc = "paused"
    /\ errLogged = "none"
    /\ startedAfterSig = {}
    /\ handlers = <<MainHandler>>
    /\ closedH = {}
    /\ jobLog = [c \in Classes |-> "none"]

\* BaseExecutor.submit_job under max_instances (add_job, scheduler.py:118,143)
MaxInstancesReached(c) == Instances(c) >= MAX_INSTANCES

\* run_job's misfire test under misfire_grace_time (scheduler.py:119,144)
MisfiredAtGrace(late) == late >= MISFIRE_GRACE_SECONDS
Misfired(late) == late > MISFIRE_GRACE_SECONDS

\* A cron trigger of class c comes due and its scheduler thread processes it,
\* late seconds after the (coalesced) run time.
Trigger(c, late) ==
    /\ mainPc \in {"paused", "drain_task", "drain_report"}
    /\ schedState[c] = "RUNNING"
    /\ IF MaxInstancesReached(c)
       THEN /\ ev' = [ev EXCEPT ![c] = [kind |-> "skipped", late |-> late,
                                        busy |-> Instances(c) > 0]]
            /\ UNCHANGED inst
       ELSE /\ ev' = [ev EXCEPT ![c] = [kind |-> "submitted", late |-> late,
                                        busy |-> Instances(c) > 0]]
            /\ inst' = [inst EXCEPT ![c][FreeSlot(c)] =
                          [pc |-> "submitted", late |-> late,
                           afterSig |-> mainPc # "paused", snap |-> <<>>]]
    /\ UNCHANGED <<schedState, mainPc, errLogged, startedAfterSig, handlers, closedH, jobLog>>

\* The worker thread picks the submitted run up: a misfired run time is
\* dropped and the instance released; otherwise the job function is entered
\* and set_logging_env copies the handler list (utils.py:30-31).
RunJob(c, s) ==
    /\ inst[c][s].pc = "submitted"
    /\ IF Misfired(inst[c][s].late)
       THEN /\ ev' = [ev EXCEPT ![c] = [kind |-> "missed", late |-> inst[c][s].late,
                                        busy |-> FALSE]]
            /\ inst' = [inst EXCEPT ![c][s] = IdleWorker]
            /\ UNCHANGED <<startedAfterSig, jobLog>>
       ELSE /\ ev' = [ev EXCEPT ![c] = [kind |-> "executed", late |-> inst[c][s].late,
                                        busy |-> FALSE]]
            /\ inst' = [inst EXCEPT ![c][s].pc = "setlog_loop", ![c][s].snap = handlers]
            /\ startedAfterSig' = IF inst[c][s].afterSig
                                  THEN startedAfterSig \cup {c} ELSE startedAfterSig
            /\ jobLog' = [jobLog EXCEPT ![c] = "none"]
    /\ UNCHANGED <<schedState, mainPc, errLogged, handlers, closedH>>

\* set_logging_env, one iteration of the loop over the copied handler list:
\* handler.close(); logger.removeHandler(handler)   (utils.py:31-33)
SetLogRemove(c, s) ==
    /\ inst[c][s].pc = "setlog_loop"
    /\ IF inst[c][s].snap = <<>>
       THEN /\ inst' = [inst EXCEPT ![c][s].pc = "setlog_add"]
            /\ UNCHANGED <<handlers, closedH, jobLog>>
       ELSE /\ closedH' = closedH \cup {Head(inst[c][s].snap)}
            /\ handlers' = SeqWithout(handlers, Head(inst[c][s].snap))
            /\ inst' = [inst EXCEPT ![c][s].snap = Tail(inst[c][s].snap)]
    /\ UNCHANGED <<schedState, ev, mainPc, errLogged, startedAfterSig, jobLog>>

\* set_logging_env: a new FileHandler is opened and added (utils.py:57-60)
SetLogAdd(c, s) ==
    /\ inst[c][s].pc = "setlog_add"
    /\ handlers' = Append(SeqWithout(handlers, JobHandler(c, s)), JobHandler(c, s))
    /\ closedH' = closedH \ {JobHandler(c, s)}
    /\ inst' = [inst EXCEPT ![c][s].pc = "body"]
    /\ UNCHANGED <<schedState, ev, mainPc, errLogged, startedAfterSig, jobLog>>

\* The job function returns after its "[... JOB END]" line and the instance
\* is released (scheduler.py:62-63, 101).
JobEnd(c, s) ==
    /\ inst[c][s].pc = "body"
    /\ inst' = [inst EXCEPT ![c][s] = IdleWorker]
    /\ UNCHANGED <<schedState, ev, mainPc, errLogged, startedAfterSig, handlers, closedH,
                   jobLog>>

\* An external dependency cannot be reached (fetcher.connect raises
\* RuntimeError, the index client raises): run_task's except logs
\* "[TASK JOB ERROR]" (scheduler.py:60-61), run_report's logs
\* "[REPORT JOB ERROR]" per branch (scheduler.py:96-99); the job function
\* returns and the instance is released.
JobFailsRetries(c, s) ==
    /\ inst[c][s].pc = "body"
    /\ inst' = [inst EXCEPT ![c][s].pc = "setlog_loop", ![c][s].snap = handlers]
    /\ jobLog' = [jobLog EXCEPT ![c] = "error"]
    /\ UNCHANGED <<schedState, ev, mainPc, errLogged, startedAfterSig, handlers, closedH>>
JobFails(c, s) ==
    /\ inst[c][s].pc = "body"
    /\ inst' = [inst EXCEPT ![c][s] = IdleWorker]
    /\ jobLog' = [jobLog EXCEPT ![c] = "error"]
    /\ UNCHANGED <<schedState, ev, mainPc, errLogged, startedAfterSig, handlers, closedH>>

\* where the handler goes after its try block: finally: sys.exit(0)
HandlerReturnsOnError(raised) == IF raised THEN "paused" ELSE "finalize"
HandlerFinally(raised) == "finalize"

\* SIGINT/SIGTERM while paused: shutdown() starts task_scheduler.shutdown(wait=True),
\* which stops the task scheduler and then waits for its executor.
Signal ==
    /\ mainPc = "paused"
    /\ schedState' = [schedState EXCEPT !["task"] = "STOPPED"]
    /\ mainPc' = "drain_task"
    /\ UNCHANGED <<inst, ev, errLogged, startedAfterSig, handlers, closedH, jobLog>>

\* task_scheduler.shutdown(wait=True) returns; report_scheduler.shutdown(wait=True) starts
DrainTaskDone ==
    /\ mainPc = "drain_task"
    /\ Instances("task") = 0
    /\ schedState' = [schedState EXCEPT !["report"] = "STOPPED"]
    /\ mainPc' = "drain_report"
    /\ UNCHANGED <<inst, ev, errLogged, startedAfterSig, handlers, closedH, jobLog>>

\* report_scheduler.shutdown(wait=True) returns; finally: sys.exit(0)
DrainReportDone ==
    /\ mainPc = "drain_report"
    /\ Instances("report") = 0
    /\ mainPc' = HandlerFinally(FALSE)
    /\ UNCHANGED <<schedState, inst, ev, errLogged, startedAfterSig, handlers, closedH, jobLog>>

\* A further signal while the handler is draining: the nested shutdown() calls
\* task_scheduler.shutdown on a stopped scheduler, which raises; the error is
\* logged and the finally clause exits.
SecondSignal ==
    /\ mainPc \in {"drain_task", "drain_report"}
    /\ schedState["task"] = "STOPPED"
    /\ errLogged' = "SchedulerNotRunningError"
    /\ mainPc' = HandlerFinally(TRUE)
    /\ UNCHANGED <<schedState, inst, ev, startedAfterSig, handlers, closedH, jobLog>>

\* One of the two shutdown calls raises: except logs, finally exits; a raise
\* in the first call skips the second.
ShutdownRaises ==
    /\ mainPc \in {"drain_task", "drain_report"}
    /\ errLogged' = "Exception"
    /\ mainPc' = HandlerFinally(TRUE)
    /\ UNCHANGED <<schedState, inst, ev, startedAfterSig, handlers, closedH, jobLog>>

\* sys.exit(0) unwinds the main thread; the interpreter joins the executors'
\* worker threads before the process is gone.
ProcessExit ==
    /\ mainPc = "finalize"
    /\ \A c \in Classes : Instances(c) = 0
    /\ mainPc' = "exited"
    /\ UNCHANGED <<schedState, inst, ev, errLogged, startedAfterSig, handlers, closedH, jobLog>>

\* one step of the worker thread in slot s of class c
WorkerStep(c, s) ==
    RunJob(c, s) \/ SetLogRemove(c, s) \/ SetLogAdd(c, s) \/ JobEnd(c, s) \/ JobFails(c, s)

ShutdownStep == DrainTaskDone \/ DrainReportDone \/ ProcessExit

NextSched ==
    \/ \E c \in Classes, late \in LateValues : Trigger(c, late)
    \/ \E c \in Classes, s \in Slots : WorkerStep(c, s)
    \/ Signal
    \/ SecondSignal
    \/ ShutdownRaises
    \/ ShutdownStep

(***************************************************************************)
(* Claims about the orchestrator                                           *)
(***************************************************************************)

\* C1: per job class at most one instance is submitted or running; a trigger
\* that fires while an instance of its class exists is skipped, one that fires
\* while none exists is submitted, and an instance only ever appears in the
\* step of a trigger that found none (nothing is queued for later).
C1_StateInv ==
    \A c \in Classes :
        /\ Instances(c) <= 1
        /\ ev[c].kind = "skipped" => ev[c].busy
        /\ ev[c].kind = "submitted" => ~ev[c].busy

C1_StepInv ==
    \A c \in Classes :
        Instances(c)' > Instances(c) =>
            /\ Instances(c) = 0
            /\ ev'[c].kind = "submitted"

C1_SingleInstancePerClass == []C1_StateInv /\ [][C1_StepInv]_schedVars

\* C1 witness: both classes are inside their job function at once and the
\* last task trigger was skipped.
C1_Witness ==
    /\ \E s \in Slots : inst["task"][s].pc = "body"
    /\ \E s \in Slots : inst["report"][s].pc = "body"
    /\ ev["task"].kind = "skipped"

\* C2 (as claimed): after the termination signal no trigger of either class
\* starts a job, and the process is gone only when no job is in flight.
C2_NoStartAfterSignal ==
    /\ startedAfterSig = {}
    /\ mainPc = "exited" => \A c \in Classes : Instances(c) = 0

\* C3: once a signal has been received the process eventually exits, and when
\* the handler left without having shut the report scheduler down (a second
\* signal, or a raise in the first shutdown call) an error was logged.
C3_ErrorLogged ==
    (mainPc \in {"finalize", "exited"} /\ schedState["report"] = "RUNNING")
        => errLogged # "none"

C3_EventuallyExits ==
    /\ (mainPc # "paused") ~> (mainPc = "exited")
    /\ []C3_ErrorLogged

\* C3 witness: the process has exited after a second signal cut the drain short.
C3_Witness ==
    /\ mainPc = "exited"
    /\ errLogged = "SchedulerNotRunningError"
    /\ schedState["report"] = "RUNNING"

\* C4: a run time handed over more than 3600 seconds late is dropped as
\* missed, and one handed over at most 3600 seconds late enters the job function.
C4_StateInv ==
    \A c \in Classes :
        /\ ev[c].kind = "missed" => ev[c].late > 3600
        /\ ev[c].kind = "executed" => ev[c].late <= 3600

C4_StepInv ==
    \A c \in Classes, s \in Slots :
        (inst[c][s].pc = "submitted" /\ inst'[c][s].pc # "submitted") =>
            IF inst[c][s].late > 3600
            THEN inst'[c][s].pc = "idle" /\ ev'[c].kind = "missed"
            ELSE inst'[c][s].pc = "setlog_loop" /\ ev'[c].kind = "executed"

C4_MisfireGrace == []C4_StateInv /\ [][C4_StepInv]_schedVars

\* C4 witness: a task run 3601 seconds late was dropped while a report run
\* exactly 3600 seconds late was executed.
C4_Witness ==
    /\ ev["task"] = [kind |-> "missed", late |-> 3601, busy |-> FALSE]
    /\ ev["report"] = [kind |-> "executed", late |-> 3600, busy |-> FALSE]

\* C5 (as claimed): at most one worker is inside set_logging_env at a time,
\* and the handler of a job that is running its body is attached and open.
C5_ExclusiveReconfiguration ==
    /\ Cardinality({<<c, s>> \in Classes \X Slots : s \in InSetLog(c)}) <= 1
    /\ \A c \in Classes, s \in Slots :
          inst[c][s].pc = "body" =>
              /\ \E i \in 1..Len(handlers) : handlers[i] = JobHandler(c, s)
              /\ JobHandler(c, s) \notin closedH

\* C15: a connectivity failure during an ingestion job aborts only that
\* execution: the error is logged, the task class is idle again, the
\* orchestrator keeps running as it was, nothing re-enters the job function
\* until a trigger has submitted it, and the next trigger of the class, with no
\* instance running, is submitted and not skipped.
C15_StepInv ==
    /\ \A s \in Slots :
          (inst["task"][s].pc = "body" /\ jobLog'["task"] = "error"
                /\ inst'["task"][s] # inst["task"][s]) =>
              /\ inst'["task"][s] = IdleWorker
              /\ mainPc' = mainPc
              /\ schedState' = schedState
    /\ \A s \in Slots :
          /\ (inst'["task"][s].pc = "setlog_loop" /\ inst["task"][s].pc # "setlog_loop")
                => inst["task"][s].pc = "submitted"
          /\ (inst'["task"][s].pc = "submitted" /\ inst["task"][s].pc # "submitted")
                => inst["task"][s].pc = "idle" /\ ev'["task"].kind = "submitted"
    /\ (jobLog["task"] = "error" /\ Instances("task") = 0 /\ ev'["task"] # ev["task"])
          => /\ ev'["task"].kind = "submitted"
             /\ \E s \in Slots : inst'["task"][s].pc = "submitted"
C15_ConnectivityFailureAbortsOnlyTheJob == [][C15_StepInv]_schedVars

\* C15 witness: the task job has failed, the class is idle again and the next
\* trigger has submitted the job on time
C15_Witness ==
    /\ jobLog["task"] = "error"
    /\ mainPc = "paused"
    /\ ev["task"].kind = "submitted"
    /\ \E s \in Slots : inst["task"][s].pc = "submitted" /\ ~Misfired(inst["task"][s].late)

(***************************************************************************)
(* Template miner: src/miner.py configures a drain3 TemplateMiner and      *)
(* src/ingest.py feeds it one failure reason per call.  The clustering     *)
(* steps follow the miner's algorithm: route by token count and a prefix   *)
(* tree, compare position by position, merge at or above the threshold,    *)
(* otherwise create a cluster.                                             *)
(***************************************************************************)

\* config.drain_sim_th = 0.8, kept as the fraction 8/10 (miner.py:39)
DRAIN_SIM_TH_DEN == 10
SimThHalf == 5 + 0
DRAIN_SIM_TH_NUM == 8

\* config.drain_depth = 4 (miner.py:42)
DRAIN_DEPTH == 4

\* TemplateMinerConfig() defaults (miner.py:36): drain_max_children,
\* parametrize_numeric_tokens = True, the wildcard string
MAX_CHILDREN == 100
PARAM_STR == "<*>"

\* maximum depth of a prefix tree node: two of the configured levels are the
\* root and the token-count layer
MaxNodeDepth == DRAIN_DEPTH - 2

\* Masked messages, as token sequences.  Five-token messages differ in their
\* first token (one of them numeric) and in one later position; ten-token
\* messages differ in position 8 and, together, in positions 9 and 10; one
\* single-token message.
NumericTokens == {"7"}
Msgs5 == {<<t1, "b", "c", t4, "e">> : t1 \in {"a", "7"}, t4 \in {"d", "x"}}
Msgs10 == {<<"k", "k", "k", "k", "k", "k", "k", t8, t9, t9>> :
              t8 \in {"k", "z"}, t9 \in {"k", "z"}}
Msgs == Msgs5 \cup Msgs10 \cup {<<"a">>}

\* calls of add_log_message the model follows
MaxAdds == 4

HasNumbers(tok) == tok \in NumericTokens

\* a prefix tree node is named by its path <<token count, key, ...>>; the tree
\* maps every node to its cluster id list
NoNode == <<>>

Children(tree, path) ==
    {q \in DOMAIN tree : Len(q) = Len(path) + 1 /\ SubSeq(q, 1, Len(path)) = path}

\* tree_search: one level down, by the token, else by the wildcard child
NextKeyNoFallback(tree, path, tok) ==
    IF Append(path, tok) \in DOMAIN tree THEN Append(path, tok) ELSE NoNode
NextKey(tree, path, tok) ==
    IF Append(path, tok) \in DOMAIN tree THEN Append(path, tok)
    ELSE IF Append(path, PARAM_STR) \in DOMAIN tree THEN Append(path, PARAM_STR)
    ELSE NoNode

RECURSIVE Descend(_, _, _, _)
Descend(tree, tokens, path, depth) ==
    IF depth >= MaxNodeDepth \/ depth = Len(tokens) THEN path
    ELSE LET next == NextKey(tree, path, tokens[depth])
         IN IF next = NoNode THEN NoNode
            ELSE Descend(tree, tokens, next, depth + 1)

\* the leaf whose clusters are the candidates for tokens, or NoNode
LeafOf(tree, tokens) ==
    IF <<Len(tokens)>> \notin DOMAIN tree THEN NoNode
    ELSE IF Len(tokens) = 0 THEN <<0>>
    ELSE Descend(tree, tokens, <<Len(tokens)>>, 1)

\* get_seq_distance: positions where the template token equals the message
\* token (a wildcard position counts as a parameter, not as a match)
SimTokens(tmpl, tokens) ==
    Cardinality({i \in 1..Len(tmpl) : tmpl[i] # PARAM_STR /\ tmpl[i] = tokens[i]})

ParamCount(tmpl) == Cardinality({i \in 1..Len(tmpl) : tmpl[i] = PARAM_STR})

\* sim_tokens / len >= drain_sim_th
MeetsThreshold(simTokens, n) == simTokens * DRAIN_SIM_TH_DEN >= DRAIN_SIM_TH_NUM * n

\* fast_match: the first cluster of greatest similarity, ties going to the
\* one with more wildcards
RECURSIVE FastMatchFrom(_, _, _, _, _)
FastMatchFrom(clusters, ids, tokens, i, best) ==
    IF i > Len(ids) THEN best
    ELSE LET cur == SimTokens(clusters[ids[i]].tmpl, tokens)
             par == ParamCount(clusters[ids[i]].tmpl)
         IN FastMatchFrom(clusters, ids, tokens, i + 1,
                IF cur > best.sim \/ (cur = best.sim /\ par > best.param)
                THEN [sim |-> cur, param |-> par, id |-> ids[i]]
                ELSE best)

FastMatch(clusters, ids, tokens) ==
    LET best == FastMatchFrom(clusters, ids, tokens, 1, [sim |-> -1, param |-> -1, id |-> 0])
    IN IF MeetsThreshold(best.sim, Len(tokens)) THEN best.id ELSE 0

\* tree_search: the matching cluster id, or 0 for none
TreeSearch(st, tokens) ==
    LET leaf == LeafOf(st.tree, tokens)
    IN IF leaf = NoNode THEN 0
       ELSE IF Len(tokens) = 0 THEN st.tree[leaf][1]
       ELSE FastMatch(st.clusters, st.tree[leaf], tokens)

\* add_seq_to_prefix_tree: the key under which a new cluster's token is filed
InsertKey(tree, path, tok) ==
    IF Append(path, tok) \in DOMAIN tree THEN tok
    ELSE IF HasNumbers(tok) THEN PARAM_STR
    ELSE IF Append(path, PARAM_STR) \in DOMAIN tree
         THEN (IF Cardinality(Children(tree, path)) < MAX_CHILDREN THEN tok ELSE PARAM_STR)
    ELSE IF Cardinality(Children(tree, path)) + 1 < MAX_CHILDREN THEN tok
    ELSE PARAM_STR

WithNode(tree, path) == IF path \in DOMAIN tree THEN tree ELSE tree @@ (path :> <<>>)

RECURSIVE InsertAt(_, _, _, _, _)
InsertAt(tree, tokens, path, depth, id) ==
    IF depth >= MaxNodeDepth \/ depth >= Len(tokens)
    THEN [tree EXCEPT ![path] = Append(@, id)]
    ELSE LET next == Append(path, InsertKey(tree, path, tokens[depth]))
         IN InsertAt(WithNode(tree, next), tokens, next, depth + 1, id)

AddSeqToPrefixTree(tree, tokens, id) ==
    LET first == <<Len(tokens)>>
    IN IF Len(tokens) = 0
       THEN [WithNode(tree, first) EXCEPT ![first] = <<id>>]
       ELSE InsertAt(WithNode(tree, first), tokens, first, 1, id)

\* create_template: a position where message and template differ becomes a wildcard
CreateTemplateKeepsMessage(tokens, tmpl) ==
    [i \in 1..Len(tmpl) |-> IF tokens[i] # tmpl[i] THEN tokens[i] ELSE tmpl[i]]
CreateTemplate(tokens, tmpl) ==
    [i \in 1..Len(tmpl) |-> IF tokens[i] # tmpl[i] THEN PARAM_STR ELSE tmpl[i]]

\* what add_log_message returns (and ingest.py embeds in the job document)
Result(change, id, clusters) ==
    [change_type |-> change, cluster_id |-> id, cluster_size |-> clusters[id].size,
     template_mined |-> clusters[id].tmpl, cluster_count |-> Len(clusters)]

\* template_miner.add_log_message(message) on miner state st (ingest.py:128):
\* the new state and the returned result
AddLogMessage(st, tokens) ==
    LET match == TreeSearch(st, tokens)
    IN IF match = 0
       THEN LET id == Len(st.clusters) + 1
                clusters == Append(st.clusters, [tmpl |-> tokens, size |-> 1])
            IN [st |-> [clusters |-> clusters,
                        tree |-> AddSeqToPrefixTree(st.tree, tokens, id)],
                res |-> Result("cluster_created", id, clusters)]
       ELSE LET tmpl == CreateTemplate(tokens, st.clusters[match].tmpl)
                clusters == [st.clusters EXCEPT ![match] =
                                [tmpl |-> tmpl, size |-> @.size + 1]]
            IN [st |-> [clusters |-> clusters, tree |-> st.tree],
                res |-> Result(IF tmpl = st.clusters[match].tmpl
                               THEN "none" ELSE "cluster_template_changed",
                               match, clusters)]

EmptyMiner == [clusters |-> <<>>, tree |-> <<>>]

VARIABLES
    miner,      \* the TemplateMiner in memory: clusters by id, and the prefix tree
    snapshot,   \* the state saved to the snapshot file
    lastMsg,    \* the message of the last add_log_message call
    lastRes,    \* its result
    firstId,    \* [Msgs -> cluster id the message got the first time, 0 if never added]
    adds        \* number of add_log_message calls so far

minerVars == <<miner, snapshot, lastMsg, lastRes, firstId, adds>>

NoResult == [change_type |-> "never", cluster_id |-> 0, cluster_size |-> 0,
             template_mined |-> <<>>, cluster_count |-> 0]

InitMiner ==
    /\ miner = EmptyMiner
    /\ snapshot = EmptyMiner
    /\ lastMsg = <<>>
    /\ lastRes = NoResult
    /\ firstId = [m \in Msgs |-> 0]
    /\ adds = 0

\* insert_failure_template's call of the miner (ingest.py:128).  The miner
\* saves its state when the call changed a cluster or created one, and
\* otherwise only when the periodic snapshot interval has elapsed.
MinerAdd(m, periodic) ==
    /\ adds < MaxAdds
    /\ LET r == AddLogMessage(miner, m)
       IN /\ miner' = r.st
          /\ lastRes' = r.res
          /\ snapshot' = IF r.res.change_type # "none" \/ periodic THEN r.st ELSE snapshot
          /\ firstId' = IF firstId[m] = 0
                        THEN [firstId EXCEPT ![m] = r.res.cluster_id] ELSE firstId
    /\ lastMsg' = m
    /\ adds' = adds + 1

\* get_template_miner (miner.py:13-30): a new TemplateMiner restored from the
\* snapshot file, as every process() call does
MinerReloadEmpty ==
    /\ miner # EmptyMiner
    /\ miner' = EmptyMiner
    /\ UNCHANGED <<snapshot, lastMsg, lastRes, firstId, adds>>
MinerReload ==
    /\ miner # snapshot
    /\ miner' = snapshot
    /\ UNCHANGED <<snapshot, lastMsg, lastRes, firstId, adds>>

NextMiner ==
    \/ \E m \in Msgs, periodic \in BOOLEAN : MinerAdd(m, periodic)
    \/ MinerReload

(***************************************************************************)
(* Claims about the template miner                                         *)
(***************************************************************************)

\* the step is an add_log_message call
IsAdd == adds' = adds + 1

\* the spec's similarity of a message to a template, as a count of positions
\* holding the same token
Agree(tmpl, tokens) == Cardinality({i \in 1..Len(tmpl) : tmpl[i] = tokens[i]})

\* the clusters compared with a message: those of the leaf it is routed to
Candidates(st, tokens) ==
    IF LeafOf(st.tree, tokens) = NoNode THEN {}
    ELSE {st.tree[LeafOf(st.tree, tokens)][i] : i \in 1..Len(st.tree[LeafOf(st.tree, tokens)])}

C7_StepInv ==
    (IsAdd /\ adds > 0 /\ lastMsg' = lastMsg) => lastRes'.cluster_id = lastRes.cluster_id

C8_StepInv ==
    IsAdd =>
        LET m == lastMsg'
            old == miner.clusters
            new == miner'.clusters
            id == lastRes'.cluster_id
        IN /\ (\E c \in Candidates(miner, m) : 10 * Agree(old[c].tmpl, m) >= 8 * Len(m))
                => /\ Len(new) = Len(old)
                   /\ id \in Candidates(miner, m)
                   /\ 10 * Agree(old[id].tmpl, m) >= 8 * Len(m)
           /\ (\A c \in 1..Len(old) :
                  Len(old[c].tmpl) # Len(m) \/ 10 * Agree(old[c].tmpl, m) < 8 * Len(m))
                => /\ Len(new) = Len(old) + 1
                   /\ \A c \in 1..Len(old) : new[c] = old[c]
                   /\ id = Len(old) + 1
                   /\ id \notin 1..Len(old)
                   /\ new[id] = [tmpl |-> m, size |-> 1]

C8_ClusteringThreshold == [][C8_StepInv]_minerVars

\* C8 witness: a message that agreed with its cluster on exactly 4 of 5
\* positions was merged, after a message agreeing on 3 of 5 had got a cluster
\* of its own.
C8_Witness ==
    /\ lastRes.change_type = "cluster_template_changed"
    /\ Len(lastMsg) = 5
    /\ ParamCount(lastRes.template_mined) = 1
    /\ \E c \in 1..Len(miner.clusters) :
          /\ Len(miner.clusters[c].tmpl) = 5
          /\ Agree(miner.clusters[c].tmpl, lastMsg) = 3

\* C9: a merge turns exactly the positions where message and stored template
\* differ into wildcards and leaves the others, keeps the token count, adds 1
\* to the match count; a wildcard position of any cluster stays a wildcard and
\* no template changes its length in any step.
C9_StepInv ==
    /\ \A c \in 1..Len(miner.clusters) :
          /\ c \in 1..Len(miner'.clusters)
          /\ Len(miner'.clusters[c].tmpl) = Len(miner.clusters[c].tmpl)
          /\ \A i \in 1..Len(miner.clusters[c].tmpl) :
                miner.clusters[c].tmpl[i] = PARAM_STR => miner'.clusters[c].tmpl[i] = PARAM_STR
    /\ (IsAdd /\ lastRes'.change_type # "cluster_created") =>
          LET id == lastRes'.cluster_id
              old == miner.clusters[id]
              new == miner'.clusters[id]
          IN /\ \A i \in 1..Len(old.tmpl) :
                   new.tmpl[i] = IF lastMsg'[i] # old.tmpl[i] THEN "<*>" ELSE old.tmpl[i]
             /\ new.size = old.size + 1
             /\ \A c \in 1..Len(miner.clusters) : c # id => miner'.clusters[c] = miner.clusters[c]

C9_MonotonicGeneralization == [][C9_StepInv]_minerVars

\* C9 witness: a ten-token cluster with two wildcards has absorbed a third
\* message that agrees with it on every other position.
C9_Witness ==
    /\ Len(lastMsg) = 10
    /\ ParamCount(lastRes.template_mined) = 2
    /\ lastRes.cluster_size = 3
    /\ lastRes.change_type = "none"

(***************************************************************************)
(* Documents and sanitization: src/ingest.py.  A document is a JSON value: *)
(* null, a string, a number, a list or an object (a function from its keys *)
(* to values).                                                             *)
(***************************************************************************)

Null == [t |-> "null"]
Str(s) == [t |-> "str", s |-> s]
Num(n) == [t |-> "num", n |-> n]
List(items) == [t |-> "list", items |-> items]
Obj(fields) == [t |-> "obj", fields |-> fields]

\* mutated field list: extra_system_packages forgotten
OnlyExtraPackages == {"extra_packages"}
PROBLEMATIC_FIELDS == {"extra_system_packages", "extra_packages"}

\* sanitize_document (ingest.py:12-50).  The list held by a problematic field
\* is wrapped as it is; its items are not visited.
RECURSIVE sanitize_document(_)
sanitize_document(doc) ==
    IF doc.t = "obj"
    THEN Obj([key \in DOMAIN doc.fields |->
                LET value == doc.fields[key]
                IN IF key \in PROBLEMATIC_FIELDS
                   THEN CASE value.t = "null" -> Obj(<<>>)
                          [] value.t = "str" -> Obj("value" :> value)
                          [] value.t = "list" -> Obj("items" :> value)
                          [] value.t = "obj" -> sanitize_document(value)
                          [] OTHER -> Obj("value" :> value)
                   ELSE sanitize_document(value)])
    ELSE IF doc.t = "list"
    THEN List([i \in DOMAIN doc.items |-> sanitize_document(doc.items[i])])
    ELSE doc

\* the documents sanitize_document is applied to
Leaves == {Null, Str("x"), Num(1)}
PlainList == List(<<Num(1), Num(2)>>)
InnerObjs ==
    {Obj(<<>>), Obj("name" :> Str("x"))}
        \cup {Obj("extra_packages" :> v) : v \in Leaves \cup {PlainList}}
Lists ==
    {PlainList}
        \cup {List(<<o>>) : o \in {Obj("extra_packages" :> Null),
                                   Obj("extra_packages" :> Str("x"))}}
Values == Leaves \cup Lists \cup InnerObjs
Docs ==
    {Obj(("extra_system_packages" :> a) @@ ("config" :> b)) : a \in Values, b \in Values}
        \cup {Obj("extra_packages" :> a) : a \in Values}

NoDoc == [t |-> "none"]

VARIABLES
    sanDoc,     \* the document handed to sanitize_document
    sanOut      \* what it returned, NoDoc before the call

sanVars == <<sanDoc, sanOut>>

\* no sanitize_document call under study
IdleSanitize == sanDoc = Obj(<<>>) /\ sanOut = NoDoc

InitSanitize == sanDoc \in Docs /\ sanOut = NoDoc

\* sanitized_data = sanitize_document(job_data) (ingest.py:154, 169)
Sanitize ==
    /\ sanOut = NoDoc
    /\ sanOut' = sanitize_document(sanDoc)
    /\ UNCHANGED sanDoc

NextSanitize == Sanitize

(***************************************************************************)
(* Claims about sanitization                                               *)
(***************************************************************************)

ShapeVariable == {"extra_system_packages", "extra_packages"}

\* out is in as the mapping of C10 describes it: same keys; under a
\* shape-variable name null -> {}, string s -> {value: s}, list l -> {items: l},
\* object -> object with its fields mapped the same way; under any other name a
\* non-container value is kept exactly and containers are mapped inside
RECURSIVE C10_Maps(_, _)
C10_Maps(in, out) ==
    /\ out.t = "obj"
    /\ DOMAIN out.fields = DOMAIN in.fields
    /\ \A k \in DOMAIN in.fields :
          LET v == in.fields[k]
              w == out.fields[k]
          IN IF k \in ShapeVariable
             THEN /\ v.t = "null" => w = Obj(<<>>)
                  /\ v.t = "str" => w = Obj("value" :> v)
                  /\ v.t = "list" => w = Obj("items" :> v)
                  /\ v.t = "obj" => C10_Maps(v, w)
             ELSE /\ v.t \in {"null", "str", "num"} => w = v
                  /\ v.t = "obj" => C10_Maps(v, w)
                  /\ v.t = "list" =>
                        /\ w.t = "list"
                        /\ Len(w.items) = Len(v.items)
                        /\ \A i \in 1..Len(v.items) :
                              IF v.items[i].t = "obj"
                              THEN C10_Maps(v.items[i], w.items[i])
                              ELSE w.items[i] = v.items[i]

RECURSIVE C11_Normalized(_)
C11_Normalized(v) ==
    IF v.t = "obj"
    THEN \A k \in DOMAIN v.fields :
            /\ k \in ShapeVariable => v.fields[k].t = "obj"
            /\ C11_Normalized(v.fields[k])
    ELSE IF v.t = "list"
    THEN \A i \in 1..Len(v.items) : C11_Normalized(v.items[i])
    ELSE TRUE

\* C11: in a document returned by sanitize every occurrence of a
\* shape-variable field name, at any nesting depth (nested objects, lists, the
\* value of another shape-variable field), holds an object, never null, a
\* string, a number or a list.
C11_NormalizedAtAllDepths == sanOut # NoDoc => C11_Normalized(sanOut)

(***************************************************************************)
(* Ingestion: process, update_runs and update_job of src/processer.py and  *)
(* the insert_* functions of src/ingest.py, one write to the index per     *)
(* step.  The upstream service answers every execution with the same runs  *)
(* and jobs.                                                               *)
(***************************************************************************)

MaxPasses == 2      \* executions of process() in a behaviour
MaxFailures == 1    \* rejected writes and failed fetches in a behaviour

\* what the miner's masking and whitespace split make of a failure reason
MaskAndSplit ==
    ("7 b c d e" :> <<"7", "b", "c", "d", "e">>)
        @@ ("a b c d e" :> <<"a", "b", "c", "d", "e">>)
        @@ ("a b c x y" :> <<"a", "b", "c", "x", "y">>)

\* get_runs(api_url, segments): the runs of the suite
UpstreamRuns ==
    << Obj(("name" :> Str("r1")) @@ ("href" :> List(<<Str("u1")>>))),
       Obj(("name" :> Str("r2")) @@ ("href" :> List(<<>>))
               @@ ("job_ids" :> List(<<Str("j9")>>))) >>

\* get_data(href).get("jobs"): the jobs behind a run's reference
UpstreamJobs ==
    "u1" :> << Obj(("job_id" :> Str("j1")) @@ ("failure_reason" :> Str("7 b c d e"))
                       @@ ("extra_packages" :> Null)),
               Obj(("job_id" :> Str("j2")) @@ ("failure_reason" :> Str("a b c d e"))
                       @@ ("extra_system_packages" :> List(<<Str("x")>>))),
               Obj(("job_id" :> Str("j3")) @@ ("failure_reason" :> Str("a b c x y"))),
               Obj(("job_id" :> Str("j4")) @@ ("failure_reason" :> Null)
                       @@ ("extra_packages" :> Str("x"))) >>

\* dict[key] = value
Put(f, k, v) == [x \in DOMAIN f \cup {k} |-> IF x = k THEN v ELSE f[x]]

\* " ".join(tokens): the template as drain3 returns it
RECURSIVE Join(_)
Join(tokens) ==
    IF Len(tokens) = 0 THEN ""
    ELSE IF Len(tokens) = 1 THEN tokens[1]
    ELSE tokens[1] \o " " \o Join(Tail(tokens))

\* the dict add_log_message returns, as a document
TemplateDoc(res) ==
    Obj([change_type |-> Str(res.change_type),
         cluster_id |-> Num(res.cluster_id),
         cluster_size |-> Num(res.cluster_size),
         template_mined |-> Str(Join(res.template_mined)),
         cluster_count |-> Num(res.cluster_count)])

\* hrefs and isinstance(hrefs, list) and len(hrefs) > 0 (processer.py:60)
HasHref(run) ==
    /\ "href" \in DOMAIN run.fields
    /\ run.fields["href"].t = "list"
    /\ Len(run.fields["href"].items) > 0

\* job.get("failure_reason") is truthy (processer.py:41)
HasFailureReason(job) ==
    /\ "failure_reason" \in DOMAIN job.fields
    /\ job.fields["failure_reason"].t = "str"
    /\ job.fields["failure_reason"].s # ""

EmptyIndex == [runs |-> <<>>, jobs |-> <<>>, patterns |-> <<>>]

VARIABLES
    ingPc,      \* where process() stands: "idle", "run", "template", "job", "rundoc"
    ingRun,     \* position in the runs of get_runs
    ingJobs,    \* the jobs fetched for the current run
    ingJob,     \* position in them
    runDoc,     \* the current run dict, job_ids included
    jobDoc,     \* the current job dict
    mining,     \* template_miner is not None
    index,      \* the collections runs, jobs and patterns: id -> stored document
    writes,     \* the writes this execution attempted: collection, id, accepted
    passes,     \* one summary per ended execution
    failures    \* rejected writes and failed fetches so far

ingestVars == <<ingPc, ingRun, ingJobs, ingJob, runDoc, jobDoc, mining, index,
                writes, passes, failures>>

InitIngest ==
    /\ ingPc = "idle"
    /\ ingRun = 0
    /\ ingJobs = <<>>
    /\ ingJob = 0
    /\ runDoc = NoDoc
    /\ jobDoc = NoDoc
    /\ mining = FALSE
    /\ index = EmptyIndex
    /\ writes = <<>>
    /\ passes = <<>>
    /\ failures = 0

\* the miner's variables only the miner claims read
minerHistory == <<lastMsg, lastRes, firstId, adds>>

\* insert_record (ingest.py:109-123): the document is stored under its id, or
\* the index rejects it and insert_record raises
InsertRecord(coll, id, body, ok) ==
    /\ index' = IF ok THEN [index EXCEPT ![coll] = Put(@, id, body)] ELSE index
    /\ failures' = IF ok THEN failures ELSE failures + 1

\* the body of insert_job, insert_run and insert_failure_template
\* (ingest.py:130-146, 154-163, 169-178): the caller's document, sanitized
\* first by insert_job and insert_run only, goes to insert_record under a try
\* whose except logs the rejection
InsertUnsanitized(coll, id, doc, sanitized, ok) ==
    /\ InsertRecord(coll, id, doc, ok)
    /\ writes' = Append(writes, [coll |-> coll, id |-> id, ok |-> ok, doc |-> doc,
                                 body |-> doc])
Insert(coll, id, doc, sanitized, ok) ==
    LET body == IF sanitized THEN sanitize_document(doc) ELSE doc
    IN /\ InsertRecord(coll, id, body, ok)
       /\ writes' = Append(writes, [coll |-> coll, id |-> id, ok |-> ok, doc |-> doc,
                                    body |-> body])

\* what an execution leaves behind; fetchFailed is the position of the run
\* whose jobs could not be fetched, 0 if none
Summary(completed, fetchFailed, idx, ws) ==
    [completed |-> completed, fetchFailed |-> fetchFailed, mining |-> mining,
     clean |-> \A i \in 1..Len(ws) : ws[i].ok,
     runs |-> idx.runs, jobs |-> idx.jobs, patterns |-> idx.patterns,
     clusters |-> IF mining THEN Len(miner.clusters) ELSE 0,
     writes |-> ws]

\* process (processer.py:73-86): the miner is restored from the snapshot
\* unless templates are skipped, and the runs are listed
ProcessStart(skip) ==
    /\ ingPc = "idle"
    /\ Len(passes) < MaxPasses
    /\ mining' = ~skip
    /\ miner' = IF skip THEN miner ELSE snapshot
    /\ ingPc' = "run"
    /\ ingRun' = 1
    /\ writes' = <<>>
    /\ UNCHANGED <<ingJobs, ingJob, runDoc, jobDoc, index, passes, failures,
                   snapshot, minerHistory>>

\* paddle_connect, setup_opensearch or get_runs raises; run_task logs it
\* (processer.py:299-300)
ProcessStartFails ==
    /\ ingPc = "idle"
    /\ Len(passes) < MaxPasses
    /\ failures < MaxFailures
    /\ failures' = failures + 1
    /\ passes' = Append(passes, Summary(FALSE, 0, index, <<>>))
    /\ UNCHANGED <<ingPc, ingRun, ingJobs, ingJob, runDoc, jobDoc, mining, index,
                   writes, minerVars>>

\* the sequence in reverse
Reverse(seq) == [i \in 1..Len(seq) |-> seq[Len(seq) + 1 - i]]

\* update_runs going through the jobs from the last to the first
FetchJobsReversed ==
    /\ ingPc = "run"
    /\ LET run == UpstreamRuns[ingRun]
           jobs == IF HasHref(run)
                   THEN Reverse(UpstreamJobs[run.fields["href"].items[1].s]) ELSE <<>>
       IN /\ runDoc' = Obj(Put(run.fields, "job_ids", List(<<>>)))
          /\ ingJobs' = jobs
          /\ ingJob' = IF jobs = <<>> THEN 0 ELSE 1
          /\ ingPc' = IF jobs = <<>> THEN "rundoc" ELSE "template"
    /\ UNCHANGED <<ingRun, jobDoc, mining, index, writes, passes, failures, minerVars>>
\* update_runs starting from the job ids of the upstream record
FetchJobsKeepsIds ==
    /\ ingPc = "run"
    /\ LET run == UpstreamRuns[ingRun]
           jobs == IF HasHref(run)
                   THEN UpstreamJobs[run.fields["href"].items[1].s] ELSE <<>>
       IN /\ runDoc' = IF "job_ids" \in DOMAIN run.fields
                        THEN run ELSE Obj(Put(run.fields, "job_ids", List(<<>>)))
          /\ ingJobs' = jobs
          /\ ingJob' = IF jobs = <<>> THEN 0 ELSE 1
          /\ ingPc' = IF jobs = <<>> THEN "rundoc" ELSE "template"
    /\ UNCHANGED <<ingRun, jobDoc, mining, index, writes, passes, failures, minerVars>>
\* update_runs up to the job loop (processer.py:57-62)
FetchJobs ==
    /\ ingPc = "run"
    /\ LET run == UpstreamRuns[ingRun]
           jobs == IF HasHref(run)
                   THEN UpstreamJobs[run.fields["href"].items[1].s] ELSE <<>>
       IN /\ runDoc' = Obj(Put(run.fields, "job_ids", List(<<>>)))
          /\ ingJobs' = jobs
          /\ ingJob' = IF jobs = <<>> THEN 0 ELSE 1
          /\ ingPc' = IF jobs = <<>> THEN "rundoc" ELSE "template"
    /\ UNCHANGED <<ingRun, jobDoc, mining, index, writes, passes, failures, minerVars>>

\* get_data raises (fetcher.py:36-43); nothing catches it before run_task
\* (processer.py:299-300), which ends the execution
FetchJobsFails ==
    /\ ingPc = "run"
    /\ HasHref(UpstreamRuns[ingRun])
    /\ failures < MaxFailures
    /\ failures' = failures + 1
    /\ passes' = Append(passes, Summary(FALSE, ingRun, index, writes))
    /\ ingPc' = "idle"
    /\ UNCHANGED <<ingRun, ingJobs, ingJob, runDoc, jobDoc, mining, index, writes,
                   minerVars>>

\* insert_failure_template returning nothing when the write is rejected
InsertFailureTemplateDrops(ok, periodic) ==
    /\ ingPc = "template"
    /\ mining /\ HasFailureReason(ingJobs[ingJob])
    /\ ok \/ failures < MaxFailures
    /\ LET job == ingJobs[ingJob]
           r == AddLogMessage(miner, MaskAndSplit[job.fields["failure_reason"].s])
           failure_template == TemplateDoc(r.res)
       IN /\ miner' = r.st
          /\ snapshot' = IF r.res.change_type # "none" \/ periodic
                         THEN r.st ELSE snapshot
          /\ Insert("patterns", r.res.cluster_id,
                    Obj("failure_template" :> failure_template), FALSE, ok)
          /\ jobDoc' = IF ok THEN Obj(Put(job.fields, "failure_template", failure_template))
                       ELSE job
    /\ ingPc' = "job"
    /\ UNCHANGED <<ingRun, ingJobs, ingJob, runDoc, mining, passes, minerHistory>>
\* update_job, the miner branch (processer.py:41-47), with
\* insert_failure_template (ingest.py:126-148): the miner takes the message,
\* the cluster document is written as returned, the job dict gets it embedded
InsertFailureTemplate(ok, periodic) ==
    /\ ingPc = "template"
    /\ mining /\ HasFailureReason(ingJobs[ingJob])
    /\ ok \/ failures < MaxFailures
    /\ LET job == ingJobs[ingJob]
           r == AddLogMessage(miner, MaskAndSplit[job.fields["failure_reason"].s])
           failure_template == TemplateDoc(r.res)
       IN /\ miner' = r.st
          /\ snapshot' = IF r.res.change_type # "none" \/ periodic
                         THEN r.st ELSE snapshot
          /\ Insert("patterns", r.res.cluster_id,
                    Obj("failure_template" :> failure_template), FALSE, ok)
          /\ jobDoc' = Obj(Put(job.fields, "failure_template", failure_template))
    /\ ingPc' = "job"
    /\ UNCHANGED <<ingRun, ingJobs, ingJob, runDoc, mining, passes, minerHistory>>

\* update_job without a miner or without a failure reason (processer.py:41)
SkipFailureTemplate ==
    /\ ingPc = "template"
    /\ ~(mining /\ HasFailureReason(ingJobs[ingJob]))
    /\ jobDoc' = ingJobs[ingJob]
    /\ ingPc' = "job"
    /\ UNCHANGED <<ingRun, ingJobs, ingJob, runDoc, mining, index, writes, passes,
                   failures, minerVars>>

\* insert_job letting the rejection escape to run_task
InsertJobRaises(ok) ==
    /\ ingPc = "job"
    /\ ok \/ failures < MaxFailures
    /\ Insert("jobs", jobDoc.fields["job_id"].s, jobDoc, TRUE, ok)
    /\ runDoc' = IF ok
                 THEN Obj(Put(runDoc.fields, "job_ids",
                              List(Append(runDoc.fields["job_ids"].items,
                                          jobDoc.fields["job_id"]))))
                 ELSE runDoc
    /\ IF ~ok
       THEN /\ ingPc' = "idle"
            /\ ingJob' = ingJob
            /\ passes' = Append(passes, Summary(FALSE, 0, index', writes'))
       ELSE /\ passes' = passes
            /\ IF ingJob < Len(ingJobs)
               THEN ingJob' = ingJob + 1 /\ ingPc' = "template"
               ELSE ingJob' = ingJob /\ ingPc' = "rundoc"
    /\ UNCHANGED <<ingRun, ingJobs, jobDoc, mining, minerVars>>

\* insert_job (ingest.py:151-163) and the append of the job id
\* (processer.py:50-52, 64-67)
InsertJob(ok) ==
    /\ ingPc = "job"
    /\ ok \/ failures < MaxFailures
    /\ LET job_id == jobDoc.fields["job_id"]
       IN /\ Insert("jobs", job_id.s, jobDoc, TRUE, ok)
          /\ runDoc' = Obj(Put(runDoc.fields, "job_ids",
                               List(Append(runDoc.fields["job_ids"].items, job_id))))
    /\ IF ingJob < Len(ingJobs)
       THEN ingJob' = ingJob + 1 /\ ingPc' = "template"
       ELSE ingJob' = ingJob /\ ingPc' = "rundoc"
    /\ UNCHANGED <<ingRun, ingJobs, jobDoc, mining, passes, minerVars>>

\* insert_run (ingest.py:166-178), then the next run of process
\* (processer.py:86-90) or the end of the execution
InsertRun(ok) ==
    /\ ingPc = "rundoc"
    /\ ok \/ failures < MaxFailures
    /\ Insert("runs", runDoc.fields["name"].s, runDoc, TRUE, ok)
    /\ IF ingRun < Len(UpstreamRuns)
       THEN /\ ingRun' = ingRun + 1
            /\ ingPc' = "run"
            /\ passes' = passes
       ELSE /\ ingRun' = ingRun
            /\ ingPc' = "idle"
            /\ passes' = Append(passes, Summary(TRUE, 0, index', writes'))
    /\ UNCHANGED <<ingJobs, ingJob, runDoc, jobDoc, mining, minerVars>>

NextIngest ==
    \/ \E skip \in BOOLEAN : ProcessStart(skip)
    \/ ProcessStartFails
    \/ FetchJobs
    \/ FetchJobsFails
    \/ \E ok \in BOOLEAN, periodic \in BOOLEAN : InsertFailureTemplate(ok, periodic)
    \/ SkipFailureTemplate
    \/ \E ok \in BOOLEAN : InsertJob(ok)
    \/ \E ok \in BOOLEAN : InsertRun(ok)

(***************************************************************************)
(* Claims about ingestion                                                  *)
(***************************************************************************)

\* two executions that ran to their end with the miner and without a
\* rejected write or a failed fetch
TwoCleanIngestions ==
    /\ Len(passes) = 2
    /\ \A i \in 1..2 : passes[i].completed /\ passes[i].mining /\ passes[i].clean

\* C6: ingesting the same runs twice (same run and job records, same failure
\* text, mining on) leaves the runs and jobs collections as the first
\* ingestion left them, the embedded failure_template included, and the miner
\* with no more clusters than after the first ingestion.
C6_IdempotentIngestion ==
    TwoCleanIngestions =>
        /\ passes[2].runs = passes[1].runs
        /\ passes[2].jobs = passes[1].jobs
        /\ passes[2].clusters <= passes[1].clusters

\* C12: sanitize runs before every write: every document insert_job,
\* insert_run and insert_failure_template pass to the index (collections jobs,
\* runs, patterns) is the output of sanitize applied to the caller's document.
C12_SanitizeBeforeEveryWrite ==
    \A i \in 1..Len(writes) : writes[i].body = sanitize_document(writes[i].doc)

\* C12 witness: an execution has written a cluster document, a job document
\* that sanitize changed, and a run document
C12_Witness ==
    /\ \E i \in 1..Len(writes) : writes[i].coll = "patterns" /\ writes[i].ok
    /\ \E i \in 1..Len(writes) :
          writes[i].coll = "jobs" /\ writes[i].ok /\ writes[i].body # writes[i].doc
    /\ \E i \in 1..Len(writes) : writes[i].coll = "runs" /\ writes[i].ok

\* the writes an execution attempts when nothing aborts it: per run, per
\* fetched job the cluster document (with the miner on and a failure reason)
\* and the job document, then the run document
RECURSIVE ExpectedJobWrites(_, _)
ExpectedJobWrites(jobs, m) ==
    IF jobs = <<>> THEN <<>>
    ELSE (IF m /\ HasFailureReason(Head(jobs)) THEN << <<"patterns", "">> >> ELSE <<>>)
            \o << <<"jobs", Head(jobs).fields["job_id"].s>> >>
            \o ExpectedJobWrites(Tail(jobs), m)
RECURSIVE ExpectedWrites(_, _)
ExpectedWrites(runs, m) ==
    IF runs = <<>> THEN <<>>
    ELSE ExpectedJobWrites(IF HasHref(Head(runs))
                           THEN UpstreamJobs[Head(runs).fields["href"].items[1].s]
                           ELSE <<>>, m)
            \o << <<"runs", Head(runs).fields["name"].s>> >>
            \o ExpectedWrites(Tail(runs), m)

\* the collection and id of each attempted write (cluster ids left out)
Attempted(ws) ==
    [i \in 1..Len(ws) |->
        <<ws[i].coll, IF ws[i].coll = "patterns" THEN "" ELSE ws[i].id>>]

\* a step in which the index rejected a write
Rejected == Len(writes') = Len(writes) + 1 /\ ~writes'[Len(writes')].ok

\* every execution that reached its end attempted every write, rejected or not
C13_StateInv ==
    \A p \in 1..Len(passes) :
        passes[p].completed =>
            Attempted(passes[p].writes) = ExpectedWrites(UpstreamRuns, passes[p].mining)

\* a rejected write is recorded and the execution goes on as after an
\* accepted one: next job, else the run document, else the next run, else
\* the regular end
C13_StepInv ==
    Rejected =>
        /\ failures' = failures + 1
        /\ ingPc = "template" => ingPc' = "job" /\ ingJob' = ingJob
        /\ ingPc = "job" =>
              IF ingJob < Len(ingJobs)
              THEN ingPc' = "template" /\ ingJob' = ingJob + 1
              ELSE ingPc' = "rundoc"
        /\ ingPc = "rundoc" =>
              IF ingRun < Len(UpstreamRuns)
              THEN ingPc' = "run" /\ ingRun' = ingRun + 1
              ELSE /\ ingPc' = "idle"
                   /\ Len(passes') = Len(passes) + 1
                   /\ passes'[Len(passes')].completed

\* C13: a rejected document write never aborts its siblings: when the index
\* rejects the write of a job, run or cluster document the error is logged and
\* every remaining job of the run, the run document and every remaining run
\* are still attempted.
C13_RejectedWriteContinues == []C13_StateInv /\ [][C13_StepInv]_ingestVars

\* C13 witness: an execution reached its end although the index rejected the
\* first job document
C13_Witness ==
    /\ Len(passes) >= 1
    /\ passes[1].completed
    /\ \E i \in 1..Len(passes[1].writes) :
          /\ i < Len(passes[1].writes)
          /\ passes[1].writes[i].coll = "jobs"
          /\ passes[1].writes[i].id = "j1"
          /\ ~passes[1].writes[i].ok

\* C14: a fetch failure is isolated to the run in progress: when fetching the
\* jobs of one run fails, that run is aborted and every other run of the same
\* listing is still processed and written.
C14_FetchFailureIsolated ==
    \A p \in 1..Len(passes) :
        passes[p].fetchFailed # 0 =>
            \A r \in 1..Len(UpstreamRuns) :
                r # passes[p].fetchFailed =>
                    \E i \in 1..Len(passes[p].writes) :
                        /\ passes[p].writes[i].coll = "runs"
                        /\ passes[p].writes[i].id = UpstreamRuns[r].fields["name"].s

\* the ids of the fetched jobs, in the order they were fetched
JobIds(jobs) == List([i \in 1..Len(jobs) |-> jobs[i].fields["job_id"]])

\* the write of a run document that the index accepted
RunStored ==
    /\ Len(writes') = Len(writes) + 1
    /\ writes'[Len(writes')].coll = "runs"
    /\ writes'[Len(writes')].ok

\* the run document just stored lists the jobs fetched for it in this
\* execution, whatever the upstream record or the stored document listed
C20_StepInv ==
    RunStored =>
        LET name == runDoc.fields["name"].s
        IN /\ name \in DOMAIN index'.runs
           /\ index'.runs[name].fields["job_ids"] = JobIds(ingJobs)

\* every stored run document lists the jobs behind the run's reference
C20_StateInv ==
    \A r \in 1..Len(UpstreamRuns) :
        LET run == UpstreamRuns[r]
            name == run.fields["name"].s
        IN name \in DOMAIN index.runs =>
               index.runs[name].fields["job_ids"] =
                   JobIds(IF HasHref(run)
                          THEN UpstreamJobs[run.fields["href"].items[1].s] ELSE <<>>)

\* C20: after a run is ingested, the job_ids of its stored run document are,
\* in order, the ids of exactly the jobs fetched for that run in that
\* ingestion; ids of an earlier ingestion of the run or of the upstream run
\* record are not carried over.
C20_JobIdsAreTheFetchedJobs == []C20_StateInv /\ [][C20_StepInv]_ingestVars

\* C20 witness: both runs were ingested twice, one job write of the second
\* ingestion was rejected, and the stored documents list four jobs and none
C20_Witness ==
    /\ Len(passes) = 2
    /\ passes[1].completed /\ passes[2].completed
    /\ \E i \in 1..Len(passes[2].writes) :
           passes[2].writes[i].coll = "jobs" /\ ~passes[2].writes[i].ok
    /\ passes[2].runs["r1"].fields["job_ids"] =
           List(<<Str("j1"), Str("j2"), Str("j3"), Str("j4")>>)
    /\ passes[2].runs["r2"].fields["job_ids"] = List(<<>>)

(***************************************************************************)
(* Reports: run_report of scheduler.py and query_data, teuthology_report   *)
(* and publish_report of src/processer.py.  A string that is compared or   *)
(* matched by prefix (a date, a posted timestamp) is a sequence of         *)
(* symbols; Python's > on strings is the lexicographic order.              *)
(***************************************************************************)

MaxDay == 3             \* the calendar days 0..MaxDay
DaysPerMonth == 2       \* days in a month of the calendar
MaxReportFailures == 1  \* failing calls in one report execution

Days == 0..MaxDay

\* current.strftime("%Y-%m-%d") (processer.py:118): month, then day of month
Format(day) == <<1 + (day \div DaysPerMonth), 1 + (day % DaysPerMonth)>>

\* a posted timestamp: the date, then the time of day
Posted(day, time) == Format(day) \o <<time>>

\* a > b on strings
RECURSIVE LexGreater(_, _)
LexGreater(a, b) ==
    IF a = <<>> THEN FALSE
    ELSE IF b = <<>> THEN TRUE
    ELSE IF Head(a) # Head(b) THEN Head(a) > Head(b)
    ELSE LexGreater(Tail(a), Tail(b))

\* the wildcard f"{date}*" on posted (processer.py:121)
IsPrefix(p, s) == Len(p) <= Len(s) /\ SubSeq(s, 1, Len(p)) = p

\* the key "suite" is absent from a run
NoSuite == "(absent)"

Hit(id, suite, posted, branch, sha1, total) ==
    [id |-> id, suite |-> suite, posted |-> posted, branch |-> branch,
     sha1 |-> sha1, total |-> total]

\* the runs collection as the report finds it
RunsIndex ==
    << Hit("r1", "rados", Posted(0, 12), "master", "s1", 5),
       Hit("r2", "rados", Posted(0, 10), "master", "s1", 6),
       Hit("r3", "rbd", Posted(1, 10), "master", "s2", 7),
       Hit("r4", "rados", Posted(2, 10), "master", "s2", 8),
       Hit("r5", "rbd", Posted(1, 10), "master", "s1", 9),
       Hit("r6", NoSuite, Posted(1, 11), "squid", "s1", 4) >>

\* the branches of a report execution (scheduler.py:80)
Branches == <<"master", "squid", "tentacle">>

\* sha_id and user are None
NoSha == ""

\* the hits of one day's query (processer.py:120-131)
QueryHits(branch, date, sha_id) ==
    SelectSeq(RunsIndex,
              LAMBDA h : /\ IsPrefix(date, h.posted)
                         /\ h.branch = branch
                         /\ sha_id # NoSha => h.sha1 = sha_id)

\* hit["_source"].get("suite", "N/A") (processer.py:182)
SuiteName(h) == IF h.suite = NoSuite THEN "N/A" ELSE h.suite

\* position of suite in the dict suite_latest (insertion order), 0 if absent
PosOf(latest, suite) ==
    IF \E i \in 1..Len(latest) : latest[i].suite = suite
    THEN CHOOSE i \in 1..Len(latest) : latest[i].suite = suite
    ELSE 0

\* a later hit replaces the kept one whatever its timestamp
KeepLast(latest, h) ==
    LET i == PosOf(latest, SuiteName(h))
        entry == [suite |-> SuiteName(h), posted |-> h.posted, hit |-> h]
    IN IF i = 0 THEN Append(latest, entry) ELSE [latest EXCEPT ![i] = entry]
\* one iteration of the loop over hits (processer.py:181-190)
Keep(latest, h) ==
    LET i == PosOf(latest, SuiteName(h))
        entry == [suite |-> SuiteName(h), posted |-> h.posted, hit |-> h]
    IN IF i = 0 THEN Append(latest, entry)
       ELSE IF LexGreater(h.posted, latest[i].posted) THEN [latest EXCEPT ![i] = entry]
       ELSE latest

RECURSIVE SuiteLatest(_, _)
SuiteLatest(latest, hits) ==
    IF hits = <<>> THEN latest
    ELSE SuiteLatest(Keep(latest, Head(hits)), Tail(hits))

\* max(suite_latest.values(), key=posted): the first greatest entry
\* (processer.py:193-196)
RECURSIVE MostRecent(_)
MostRecent(latest) ==
    IF Len(latest) = 1 THEN latest[1]
    ELSE LET rest == MostRecent(SubSeq(latest, 1, Len(latest) - 1))
         IN IF LexGreater(latest[Len(latest)].posted, rest.posted)
            THEN latest[Len(latest)] ELSE rest

\* teuthology_report (processer.py:159-226): the "No data available" text
\* for an empty list of hits, else what the template is rendered with
Rendered(hits, branch, sha_id) ==
    IF hits = <<>>
    THEN [kind |-> "no data", branch |-> branch, sha_id |-> sha_id, data |-> <<>>]
    ELSE LET latest == SuiteLatest(<<>>, hits)
         IN [kind |-> "report", branch |-> branch,
             sha_id |-> IF sha_id = NoSha THEN MostRecent(latest).hit.sha1 ELSE sha_id,
             data |-> [i \in 1..Len(latest) |->
                         [suite |-> latest[i].suite, href |-> latest[i].hit.id,
                          total |-> latest[i].hit.total]]]

NoReport == [kind |-> "none", branch |-> "", sha_id |-> "", data |-> <<>>]

VARIABLES
    repPc,       \* "idle", "branch", "query", "notify"
    repRange,    \* start_date, end_date and sha_id of the execution
    repBranch,   \* position in Branches
    repDay,      \* current of query_data
    repQueries,  \* the queries issued for the branch: date, branch, sha, the hits returned
    repHits,     \* all_hits
    repHtml,     \* html_content
    outbox,      \* what was handed to send_email and accepted
    reports,     \* per finished branch: queries, hits, outcome
    repFailures  \* failing calls in this execution

repVars == <<repPc, repRange, repBranch, repDay, repQueries, repHits, repHtml,
             outbox, reports, repFailures>>

InitReport ==
    /\ repPc = "idle"
    /\ repRange = [start |-> 0, end |-> 0, sha_id |-> NoSha]
    /\ repBranch = 0
    /\ repDay = 0
    /\ repQueries = <<>>
    /\ repHits = <<>>
    /\ repHtml = NoReport
    /\ outbox = <<>>
    /\ reports = <<>>
    /\ repFailures = 0

\* run_report up to the branch loop (scheduler.py:66-80)
ReportStart(start, end, sha_id) ==
    /\ repPc = "idle"
    /\ repRange' = [start |-> start, end |-> end, sha_id |-> sha_id]
    /\ repPc' = "branch"
    /\ repBranch' = 1
    /\ repQueries' = <<>>
    /\ repHits' = <<>>
    /\ repHtml' = NoReport
    /\ outbox' = <<>>
    /\ reports' = <<>>
    /\ repFailures' = 0
    /\ UNCHANGED repDay

\* run_report fails before the branch loop: the read of the sha file raises
\* outside any try (scheduler.py:78) and the executor logs the exception
ReportStartFails(start, end) ==
    /\ repPc = "idle"
    /\ repRange' = [start |-> start, end |-> end, sha_id |-> NoSha]
    /\ repBranch' = 0
    /\ repQueries' = <<>>
    /\ repHits' = <<>>
    /\ repHtml' = NoReport
    /\ outbox' = <<>>
    /\ reports' = <<>>
    /\ repFailures' = 1
    /\ UNCHANGED <<repPc, repDay>>

\* an error in one branch ends the loop
BranchDoneStopsOnError(outcome, queries, hits, html) ==
    /\ reports' = Append(reports, [branch |-> Branches[repBranch], outcome |-> outcome,
                                   queries |-> queries, hits |-> hits, html |-> html])
    /\ IF repBranch < Len(Branches) /\ outcome # "error"
       THEN repBranch' = repBranch + 1 /\ repPc' = "branch"
       ELSE repBranch' = repBranch /\ repPc' = "idle"
\* the end of one iteration of the branch loop (scheduler.py:80, 96-101):
\* the next branch, or "[REPORT JOB END]"
BranchDone(outcome, queries, hits, html) ==
    /\ reports' = Append(reports, [branch |-> Branches[repBranch], outcome |-> outcome,
                                   queries |-> queries, hits |-> hits, html |-> html])
    /\ IF repBranch < Len(Branches)
       THEN repBranch' = repBranch + 1 /\ repPc' = "branch"
       ELSE repBranch' = repBranch /\ repPc' = "idle"

\* publish_report up to query_data (processer.py:244-257, 112-115);
\* get_report_config or opensearch_connect may raise, which run_report logs
PublishStart(ok) ==
    /\ repPc = "branch"
    /\ ok \/ repFailures < MaxReportFailures
    /\ repQueries' = <<>>
    /\ repHits' = <<>>
    /\ repHtml' = NoReport
    /\ repDay' = repRange.start
    /\ IF ok
       THEN /\ repPc' = "query"
            /\ UNCHANGED <<repBranch, reports, repFailures>>
       ELSE /\ repFailures' = repFailures + 1
            /\ BranchDone("error", <<>>, <<>>, NoReport)
    /\ UNCHANGED <<repRange, outbox>>

\* the page size of a search (ingest.py:181)
QUERY_SIZE == 1000

\* the first n elements of a sequence
Take(seq, n) == SubSeq(seq, 1, IF n < Len(seq) THEN n ELSE Len(seq))

\* query letting the failure of the search escape
queryRaises(ok, branch, date, sha_id) ==
    IF ok
    THEN [kind |-> "response", size |-> QUERY_SIZE,
          hits |-> Take(QueryHits(branch, date, sha_id), QUERY_SIZE)]
    ELSE [kind |-> "raised", size |-> QUERY_SIZE, hits |-> <<>>]
\* query (ingest.py:181-190): the search with the default size; None when
\* the search raises
query(ok, branch, date, sha_id) ==
    IF ok
    THEN [kind |-> "response", size |-> QUERY_SIZE,
          hits |-> Take(QueryHits(branch, date, sha_id), QUERY_SIZE)]
    ELSE [kind |-> "None", size |-> QUERY_SIZE, hits |-> <<>>]

\* the record of one query of the scan
Queried(date, branch, sha_id, ok, response) ==
    [date |-> date, branch |-> branch, sha_id |-> sha_id, ok |-> ok,
     kind |-> response.kind, size |-> response.size, hits |-> response.hits]

\* the day's hits replace the accumulated ones
QueryDayOverwrites(ok) ==
    /\ repPc = "query"
    /\ repDay <= repRange.end
    /\ ok \/ repFailures < MaxReportFailures
    /\ LET date == Format(repDay)
           branch == Branches[repBranch]
           response == query(ok, branch, date, repRange.sha_id)
       IN /\ repQueries' = Append(repQueries,
                                  Queried(date, branch, repRange.sha_id, ok, response))
          /\ repHits' = response.hits
    /\ repDay' = repDay + 1
    /\ repFailures' = IF ok THEN repFailures ELSE repFailures + 1
    /\ UNCHANGED <<repPc, repRange, repBranch, repHtml, outbox, reports>>
\* one iteration of while current <= end (processer.py:117-135): the day's
\* query, whose hits are added when there is a response with hits; an
\* exception of query would leave publish_report for run_report's except
QueryDay(ok) ==
    /\ repPc = "query"
    /\ repDay <= repRange.end
    /\ ok \/ repFailures < MaxReportFailures
    /\ LET date == Format(repDay)
           branch == Branches[repBranch]
           response == query(ok, branch, date, repRange.sha_id)
           queries == Append(repQueries,
                             Queried(date, branch, repRange.sha_id, ok, response))
       IN /\ repQueries' = queries
          /\ repFailures' = IF ok THEN repFailures ELSE repFailures + 1
          /\ IF response.kind = "raised"
             THEN /\ BranchDone("error", queries, repHits, NoReport)
                  /\ UNCHANGED <<repHits, repDay>>
             ELSE /\ repHits' = IF response.kind = "response"
                                 THEN repHits \o response.hits ELSE repHits
                  /\ repDay' = repDay + 1
                  /\ UNCHANGED <<repPc, repBranch, reports>>
    /\ UNCHANGED <<repRange, repHtml, outbox>>

\* query_data returned no hits: publish_report logs a warning and returns
\* (processer.py:259-262)
NoData ==
    /\ repPc = "query"
    /\ repDay > repRange.end
    /\ repHits = <<>>
    /\ BranchDone("no data", repQueries, repHits, NoReport)
    /\ UNCHANGED <<repRange, repDay, repQueries, repHits, repHtml, outbox, repFailures>>

\* teuthology_report (processer.py:265); reading or rendering the template
\* may raise
Render(ok) ==
    /\ repPc = "query"
    /\ repDay > repRange.end
    /\ repHits # <<>>
    /\ ok \/ repFailures < MaxReportFailures
    /\ IF ok
       THEN /\ repHtml' = Rendered(repHits, Branches[repBranch], repRange.sha_id)
            /\ repPc' = "notify"
            /\ UNCHANGED <<repBranch, reports, repFailures>>
       ELSE /\ repHtml' = repHtml
            /\ repFailures' = repFailures + 1
            /\ BranchDone("error", repQueries, repHits, NoReport)
    /\ UNCHANGED <<repRange, repDay, repQueries, repHits, outbox>>

\* send_email (processer.py:268-269)
Notify(ok) ==
    /\ repPc = "notify"
    /\ ok \/ repFailures < MaxReportFailures
    /\ outbox' = IF ok THEN Append(outbox, repHtml) ELSE outbox
    /\ repFailures' = IF ok THEN repFailures ELSE repFailures + 1
    /\ BranchDone(IF ok THEN "sent" ELSE "error", repQueries, repHits, repHtml)
    /\ UNCHANGED <<repRange, repDay, repQueries, repHits, repHtml>>

NextReport ==
    \/ \E start \in Days, end \in Days, sha_id \in {NoSha, "s1"} :
          ReportStart(start, end, sha_id)
    \/ \E start \in Days, end \in Days : ReportStartFails(start, end)
    \/ \E ok \in BOOLEAN : PublishStart(ok)
    \/ \E ok \in BOOLEAN : QueryDay(ok)
    \/ NoData
    \/ \E ok \in BOOLEAN : Render(ok)
    \/ \E ok \in BOOLEAN : Notify(ok)

(***************************************************************************)
(* Claims about reports                                                    *)
(***************************************************************************)

\* data has exactly one row per distinct suite name among hits, and each row
\* is built from a hit of its suite that no hit of the suite exceeds in posted
C16_Reduced(hits, data) ==
    LET suites == {SuiteName(hits[i]) : i \in 1..Len(hits)}
    IN /\ Len(data) = Cardinality(suites)
       /\ {data[k].suite : k \in 1..Len(data)} = suites
       /\ \A k \in 1..Len(data) :
             \E i \in 1..Len(hits) :
                /\ SuiteName(hits[i]) = data[k].suite
                /\ hits[i].id = data[k].href
                /\ hits[i].total = data[k].total
                /\ \A j \in 1..Len(hits) :
                      SuiteName(hits[j]) = data[k].suite
                          => ~LexGreater(hits[j].posted, hits[i].posted)

\* C16: for a non-empty list of hits the report has exactly one row per
\* distinct suite name among the hits, built from a hit of that suite whose
\* posted timestamp is lexicographically greatest among the suite's hits.
C16_ReportReduction ==
    /\ repPc = "notify" => repHits # <<>> /\ C16_Reduced(repHits, repHtml.data)
    /\ \A r \in 1..Len(reports) :
          reports[r].outcome = "sent" => C16_Reduced(reports[r].hits, reports[r].html.data)

\* C16 witness: five hits of two suites, the suite's latest hit neither first
\* nor last among them, reduced to two rows
C16_Witness ==
    /\ repPc = "notify"
    /\ Len(repHits) = 5
    /\ repHits[1].id = "r1" /\ repHits[2].id = "r2" /\ repHits[5].id = "r4"
    /\ repHtml.data = << [suite |-> "rados", href |-> "r4", total |-> 8],
                         [suite |-> "rbd", href |-> "r3", total |-> 7] >>

RECURSIVE AllHits(_)
AllHits(queries) ==
    IF queries = <<>> THEN <<>> ELSE Head(queries).hits \o AllHits(Tail(queries))

\* queries are the daily queries of the inclusive range for branch, in
\* ascending order, and hits is the concatenation of what they returned
C17_Scanned(range, branch, queries, hits) ==
    range.start <= range.end =>
        /\ Len(queries) = range.end - range.start + 1
        /\ \A i \in 1..Len(queries) :
              /\ queries[i].date = Format(range.start + i - 1)
              /\ queries[i].branch = branch
              /\ i > 1 => LexGreater(queries[i].date, queries[i - 1].date)
        /\ hits = AllHits(queries)

\* C17: for start_date <= end_date a report issues exactly one query per
\* calendar day of the inclusive range (end - start + 1 queries, ascending,
\* each with the day's date prefix and the branch), and the hits handed to the
\* reduction step are the concatenation of the hits of these queries.
C17_DayRangeScanning ==
    /\ (repPc = "notify" \/ (repPc = "query" /\ repDay > repRange.end))
          => C17_Scanned(repRange, Branches[repBranch], repQueries, repHits)
    /\ \A r \in 1..Len(reports) :
          reports[r].outcome \in {"sent", "no data"}
              => C17_Scanned(repRange, reports[r].branch, reports[r].queries,
                             reports[r].hits)

\* C17 witness: a report over days 0..2, across a month boundary, has issued
\* three queries and handed their five hits to the reduction
C17_Witness ==
    /\ repPc = "notify"
    /\ repRange.start = 0 /\ repRange.end = 2
    /\ Len(repQueries) = 3
    /\ Len(repQueries[1].hits) = 2 /\ Len(repQueries[2].hits) = 2
    /\ Len(repHits) = 5

\* C18: when the queries of the whole range return no hits for a branch, the
\* report operation for that branch yields an explicit "no data" result that
\* is handed to the notifier, rather than an empty report or nothing.
C18_NoDataResultNotified ==
    \A r \in 1..Len(reports) :
        (reports[r].hits = <<>> /\ reports[r].outcome # "error") =>
            \E k \in 1..Len(outbox) :
                outbox[k].kind = "no data" /\ outbox[k].branch = reports[r].branch

\* the branches finished so far are the first branches of the list, in order
\* and once each; an execution that entered the branch loop and is idle again
\* has finished them all
C19_StateInv ==
    /\ Len(reports) <= Len(Branches)
    /\ \A i \in 1..Len(reports) : reports[i].branch = Branches[i]
    /\ repPc \in {"branch", "query", "notify"} => repBranch = Len(reports) + 1
    /\ (repPc = "idle" /\ repBranch # 0) => Len(reports) = Len(Branches)

\* a failure in one branch is recorded and the loop goes on with the next
\* branch, or ends after the last one
C19_StepInv ==
    (Len(reports') = Len(reports) + 1 /\ reports'[Len(reports')].outcome = "error") =>
        /\ repFailures' = repFailures + 1
        /\ IF repBranch < Len(Branches)
           THEN repPc' = "branch" /\ repBranch' = repBranch + 1
           ELSE repPc' = "idle"

C22_QueriesBestEffort(queries) ==
    \A i \in 1..Len(queries) :
        /\ queries[i].size <= 1000
        /\ queries[i].kind \in {"response", "None"}
        /\ ~queries[i].ok => queries[i].kind = "None"

\* a scan that has passed its last day has queried every day of the range,
\* failed days included
C22_StateInv ==
    /\ C22_QueriesBestEffort(repQueries)
    /\ \A r \in 1..Len(reports) : C22_QueriesBestEffort(reports[r].queries)
    /\ (repPc = "query" /\ repDay > repRange.end /\ repRange.start <= repRange.end)
           => Len(repQueries) = repRange.end - repRange.start + 1

\* a failed query adds no hit and the scan goes on with the next day
C22_StepInv ==
    (Len(repQueries') = Len(repQueries) + 1 /\ ~repQueries'[Len(repQueries')].ok) =>
        /\ repHits' = repHits
        /\ repPc' = "query"
        /\ repDay' = repDay + 1

\* C22: a query never raises to its caller: on backend failure it returns
\* None, each query requests at most 1000 results, and the date-range scan
\* treats a failed day as contributing zero hits and continues with the
\* following days.
C22_QueryNeverRaises == []C22_StateInv /\ [][C22_StepInv]_repVars

\* C22 witness: the query of the first of three days failed, the two later
\* days were queried and their three hits are the hits of the report
C22_Witness ==
    /\ repPc = "notify"
    /\ Len(repQueries) = 3
    /\ ~repQueries[1].ok /\ repQueries[1].kind = "None"
    /\ repQueries[2].ok /\ repQueries[3].ok
    /\ Len(repHits) = 3

(***************************************************************************)
(* The source client: get_data and get_runs of fetcher.py                  *)
(***************************************************************************)

\* the status codes, media types and Content-Type headers of the responses
Statuses == {200, 204, 404, 500}
MediaTypes == {"application/json", "text/plain", "text/html", ""}

\* a response: the header's media type, whether it is written in upper case
\* and followed by a parameter ("; charset=utf-8"), and whether the body
\* parses as JSON
Responses ==
    [status : Statuses, media : MediaTypes, upper : BOOLEAN, param : BOOLEAN,
     wellformed : BOOLEAN]

\* str.lower() of the header
Lower(resp) == [resp EXCEPT !.upper = FALSE]

\* ctype == "application/json"
IsJson(ctype) == ctype.media = "application/json" /\ ~ctype.upper /\ ~ctype.param

\* ctype.startswith("text/plain")
IsPlainText(ctype) == ctype.media = "text/plain" /\ ~ctype.upper

\* the result of a call: what it returned or raised, and the requests it made
Returned(body, n) == [kind |-> "body", body |-> body, error |-> "", requests |-> n]
Raised(error, n) == [kind |-> "error", body |-> "", error |-> error, requests |-> n]
NoCall == [kind |-> "none", body |-> "", error |-> "", requests |-> 0]

\* get_data accepting a successful response of any content type
get_data_any_type(reachable, resp) ==
    IF ~reachable THEN Raised("RequestException", 1)
    ELSE IF resp.status = 200 THEN Returned("text", 1)
    ELSE Raised("ValueError", 1)
\* get_data (fetcher.py:22-43): one requests.get, then the checks of the
\* status and of the content type
get_data(reachable, resp) ==
    IF ~reachable THEN Raised("RequestException", 1)
    ELSE IF resp.status = 200
         THEN LET ctype == Lower(resp)
              IN IF IsJson(ctype)
                 THEN IF resp.wellformed THEN Returned("json", 1)
                      ELSE Raised("ValueError", 1)
                 ELSE IF IsPlainText(ctype) THEN Returned("text", 1)
                 ELSE Raised("ValueError", 1)
         ELSE Raised("ValueError", 1)

\* get_runs (fetcher.py:46-57): the url is built and handed to get_data
get_runs(reachable, resp) == get_data(reachable, resp)

VARIABLES
    fetchVia,     \* the function called: "get_data" or "get_runs"
    fetchUp,      \* the host could be reached
    fetchResp,    \* the response it sent
    fetchResult   \* what the call returned or raised

fetchVars == <<fetchVia, fetchUp, fetchResp, fetchResult>>

InitFetch ==
    /\ fetchVia = ""
    /\ fetchUp = FALSE
    /\ fetchResp = [status |-> 200, media |-> "", upper |-> FALSE, param |-> FALSE,
                    wellformed |-> FALSE]
    /\ fetchResult = NoCall

GetData(reachable, resp) ==
    /\ fetchVia' = "get_data"
    /\ fetchUp' = reachable
    /\ fetchResp' = resp
    /\ fetchResult' = get_data(reachable, resp)

GetRuns(reachable, resp) ==
    /\ fetchVia' = "get_runs"
    /\ fetchUp' = reachable
    /\ fetchResp' = resp
    /\ fetchResult' = get_runs(reachable, resp)

NextFetch ==
    \/ \E reachable \in BOOLEAN, resp \in Responses : GetData(reachable, resp)
    \/ \E reachable \in BOOLEAN, resp \in Responses : GetRuns(reachable, resp)

(***************************************************************************)
(* Claims about the source client                                          *)
(***************************************************************************)

\* a success status, and a content type that is JSON or plain text however
\* the header spells it
SuccessStatus(resp) == resp.status \in 200..299
JsonOrPlainText(resp) == resp.media \in {"application/json", "text/plain"}

\* C21: a fetch makes exactly one request attempt per call: it returns the
\* parsed body only when the status is success and the content type is JSON
\* or plain text, and fails with an error in every other case, without
\* retrying.
C21_SingleAttemptFetch ==
    fetchResult # NoCall =>
        /\ fetchResult.requests = 1
        /\ fetchResult.kind \in {"body", "error"}
        /\ fetchResult.kind = "body" =>
               fetchUp /\ SuccessStatus(fetchResp) /\ JsonOrPlainText(fetchResp)
        /\ ~(SuccessStatus(fetchResp) /\ JsonOrPlainText(fetchResp)) =>
               fetchResult.kind = "error"

\* C21 witness: get_runs got a successful response of another content type
\* and raised after its single request
C21_Witness ==
    /\ fetchVia = "get_runs"
    /\ fetchUp
    /\ fetchResp.status = 200
    /\ fetchResp.media = "text/html"
    /\ fetchResult = Raised("ValueError", 1)

(***************************************************************************)
(* The report summary as a function of the accumulated hits                *)
(***************************************************************************)

MaxHits == 3    \* hits in one accumulated list

\* the lists of at most MaxHits distinct hits of the index, in every order
HitLists ==
    UNION {{[i \in 1..n |-> RunsIndex[f[i]]] :
               f \in {g \in [1..n -> 1..Len(RunsIndex)] :
                         \A i, j \in 1..n : i # j => g[i] # g[j]}} :
           n \in 0..MaxHits}

VARIABLES
    sumHits,    \* the hits handed to teuthology_report, as accumulated
    sumSha,     \* the sha_id handed to it
    sumOut      \* what it rendered

sumVars == <<sumHits, sumSha, sumOut>>

InitSum ==
    /\ sumHits = <<>>
    /\ sumSha = NoSha
    /\ sumOut = NoReport

\* teuthology_report(hits, branch, results_server, sha_id)
Summarize(hits, sha_id) ==
    /\ sumHits' = hits
    /\ sumSha' = sha_id
    /\ sumOut' = Rendered(hits, "master", sha_id)

NextSum == \E hits \in HitLists, sha_id \in {NoSha, "s1"} : Summarize(hits, sha_id)

(***************************************************************************)
(* Claims about the report summary                                         *)
(***************************************************************************)

\* the same hits in the order p
Reordered(hits, p) == [i \in 1..Len(hits) |-> hits[p[i]]]

\* the rows of a report, as a set
Rows(html) == {html.data[k] : k \in 1..Len(html.data)}

\* C23: the report summary is deterministic: for a fixed multiset of hits
\* the set of rows and the derived build id are the same for every order in
\* which the hits are accumulated, including when two hits of the same suite
\* carry the same posted timestamp.
C23_SummaryDeterministic ==
    sumOut # NoReport =>
        \A p \in Permutations(1..Len(sumHits)) :
            LET other == Rendered(Reordered(sumHits, p), "master", sumSha)
            IN /\ Rows(other) = Rows(sumOut)
               /\ other.sha_id = sumOut.sha_id

(***************************************************************************)
(* Bulk insertion of log lines: insert_logs of api/opensearch.py           *)
(***************************************************************************)

MaxBatches == 2     \* full batches in the longest logs

\* batch_size of insert_logs (api/opensearch.py:151)
BATCH_SIZE == 1000

\* the log files: their number of lines, around the multiples of the batch
\* size, and where their blank lines are
LogLengths ==
    UNION {{k * BATCH_SIZE - 1, k * BATCH_SIZE, k * BATCH_SIZE + 1} : k \in 0..MaxBatches}
        \cap Nat
BlankPatterns == {"none", "first", "middle", "last", "all"}
LogFiles == [n : LogLengths, blanks : BlankPatterns, newline : BOOLEAN]
JobIdsOfLogs == {"j1", "j2"}

\* line i of a log file: its text, empty or white space for a blank line, and
\* the newline that ends it (the last line of a file may lack it)
LineOf(file, i) ==
    LET blank == \/ file.blanks = "all"
                 \/ file.blanks = "first" /\ i = 1
                 \/ file.blanks = "middle" /\ i = (file.n + 1) \div 2
                 \/ file.blanks = "last" /\ i = file.n
    IN [text |-> IF ~blank THEN "text" ELSE IF i % 2 = 0 THEN "" ELSE "  ",
        no |-> i,
        newline |-> i < file.n \/ file.newline]

\* for line in f
Lines(file) == [i \in 1..file.n |-> LineOf(file, i)]

\* line.strip() is truthy
Strip(line) == IF line.text \in {"", "  "} THEN "" ELSE line.text

\* line.rstrip("\n")
Rstrip(line) == [text |-> line.text, no |-> line.no, newline |-> FALSE]

\* batchify without the batch that is not full
batchifyFullOnly(items) ==
    [k \in 1..(Len(items) \div BATCH_SIZE) |->
        SubSeq(items, (k - 1) * BATCH_SIZE + 1, k * BATCH_SIZE)]
\* batchify (api/opensearch.py:154-162, utils.py:110-130): a batch is yielded
\* each time it holds batch_size items, and what is left at the end if any
RECURSIVE batchify(_)
batchify(items) ==
    IF Len(items) = 0 THEN <<>>
    ELSE IF Len(items) <= BATCH_SIZE THEN <<items>>
    ELSE <<SubSeq(items, 1, BATCH_SIZE)>>
             \o batchify(SubSeq(items, BATCH_SIZE + 1, Len(items)))

\* the actions of one batch (api/opensearch.py:173-179)
Actions(batch_lines, id) ==
    [i \in 1..Len(batch_lines) |-> [message |-> Rstrip(batch_lines[i]), job_id |-> id]]

NoLog == [n |-> 0, blanks |-> "none", newline |-> FALSE]

VARIABLES
    logPc,        \* "idle" or "bulk"
    logFile,      \* the log file being inserted
    logId,        \* the job id it belongs to
    logBatches,   \* the batches the generator has still to yield
    logBulks,     \* the calls of helpers.bulk: actions and outcome
    logPrinted    \* "Error during ingestion" lines printed

logVars == <<logPc, logFile, logId, logBatches, logBulks, logPrinted>>

InitLog ==
    /\ logPc = "idle"
    /\ logFile = NoLog
    /\ logId = ""
    /\ logBatches = <<>>
    /\ logBulks = <<>>
    /\ logPrinted = 0

\* insert_logs up to the loop over the batches (api/opensearch.py:148-169)
InsertLogs(file, id) ==
    /\ logPc = "idle"
    /\ logFile' = file
    /\ logId' = id
    /\ logBatches' = batchify(SelectSeq(Lines(file), LAMBDA line : Strip(line) # ""))
    /\ logBulks' = <<>>
    /\ logPrinted' = 0
    /\ logPc' = "bulk"

\* one iteration of the loop (api/opensearch.py:169-187): helpers.bulk with
\* the actions of the batch; an exception is printed
BulkBatch(ok) ==
    /\ logPc = "bulk"
    /\ logBatches # <<>>
    /\ logBulks' = Append(logBulks, [actions |-> Actions(Head(logBatches), logId),
                                     ok |-> ok])
    /\ logBatches' = Tail(logBatches)
    /\ logPrinted' = IF ok THEN logPrinted ELSE logPrinted + 1
    /\ UNCHANGED <<logPc, logFile, logId>>

\* the generator is exhausted and insert_logs returns; its locals are gone
InsertLogsEnd ==
    /\ logPc = "bulk"
    /\ logBatches = <<>>
    /\ logPc' = "idle"
    /\ logFile' = NoLog
    /\ logId' = ""
    /\ logBulks' = <<>>
    /\ logPrinted' = 0
    /\ UNCHANGED logBatches

NextLog ==
    \/ \E file \in LogFiles, id \in JobIdsOfLogs : InsertLogs(file, id)
    \/ \E ok \in BOOLEAN : BulkBatch(ok)
    \/ InsertLogsEnd

(***************************************************************************)
(* Claims about the bulk insertion                                         *)
(***************************************************************************)

\* the line numbers of the lines that are not blank, ascending
NonBlank(file) ==
    SelectSeq([i \in 1..file.n |-> i], LAMBDA i : LineOf(file, i).text = "text")

\* the line numbers of the messages handed to helpers.bulk, call after call
RECURSIVE Written(_)
Written(bulks) ==
    IF bulks = <<>> THEN <<>>
    ELSE Written(SubSeq(bulks, 1, Len(bulks) - 1))
             \o [i \in 1..Len(bulks[Len(bulks)].actions) |->
                    bulks[Len(bulks)].actions[i].message.no]

\* C24: bulk log-line insertion: the lines written are exactly the non-blank
\* lines of the log in original order; they are grouped into batches where
\* every batch except possibly the last has exactly 1000 lines and no batch
\* is empty; every written line carries the owning job id; and a failed
\* batch is logged while all later batches are still attempted.
C24_BulkLogInsertion ==
    /\ \A k \in 1..Len(logBulks) :
          /\ Len(logBulks[k].actions) \in 1..1000
          /\ k < Len(logBulks) => Len(logBulks[k].actions) = 1000
          /\ \A i \in 1..Len(logBulks[k].actions) :
                /\ logBulks[k].actions[i].job_id = logId
                /\ logBulks[k].actions[i].message.text = "text"
    /\ logPrinted = Cardinality({k \in 1..Len(logBulks) : ~logBulks[k].ok})
    /\ (logBatches # <<>> /\ logBulks # <<>>) =>
           Len(logBulks[Len(logBulks)].actions) = 1000
    /\ logBatches = <<>> => Written(logBulks) = NonBlank(logFile)

\* C24 witness: a log of 2001 lines with one blank line in the middle has
\* been inserted in two batches of 1000 lines, the first of which failed
C24_Witness ==
    /\ logPc = "bulk" /\ logBatches = <<>>
    /\ logFile.n = 2 * 1000 + 1 /\ logFile.blanks = "middle"
    /\ Len(logBulks) = 2
    /\ ~logBulks[1].ok /\ logBulks[2].ok
    /\ Len(logBulks[2].actions) = 1000
    /\ logPrinted = 1

(***************************************************************************)
(* Set-up of the collections: setup_opensearch and create_index            *)
(***************************************************************************)

\* get_index_config (ingest.py:193-223): the collections in the order of the
\* dict, and the body each is created with
IndexKeys == <<"runs", "jobs", "patterns">>
IndexBody(key) ==
    [total_fields_limit |-> IF key = "patterns" THEN 100 ELSE 10000,
     ignore_malformed |-> TRUE]

\* a body some other tool created a collection with, and no collection
ForeignBody == [total_fields_limit |-> 1000, ignore_malformed |-> FALSE]
Absent == [total_fields_limit |-> 0, ignore_malformed |-> FALSE]

VARIABLES
    stores,        \* the backend: collection -> its body, or Absent
    setupPc,       \* "idle" or "create"
    setupPos,      \* position in IndexKeys
    setupBefore,   \* the backend as setup_opensearch found it
    setupCreated,  \* the collections this call created
    setupResult    \* how the last call ended: "none", "returned" or what raised

setupVars == <<stores, setupPc, setupPos, setupBefore, setupCreated, setupResult>>

InitSetup ==
    /\ stores = [k \in {"runs", "jobs", "patterns"} |-> Absent]
    /\ setupPc = "idle"
    /\ setupPos = 0
    /\ setupBefore = stores
    /\ setupCreated = <<>>
    /\ setupResult = "none"

\* setup_opensearch up to the loop (ingest.py:95-98); connect may raise
SetupOpensearch(ok) ==
    /\ setupPc = "idle"
    /\ setupBefore' = stores
    /\ setupCreated' = <<>>
    /\ IF ok
       THEN setupPc' = "create" /\ setupPos' = 1 /\ setupResult' = "none"
       ELSE setupPc' = "idle" /\ setupPos' = 0 /\ setupResult' = "connect raised"
    /\ UNCHANGED stores

\* the end of one iteration of the loop of setup_opensearch
SetupNext ==
    IF setupPos < Len(IndexKeys)
    THEN setupPc' = "create" /\ setupPos' = setupPos + 1 /\ setupResult' = "none"
    ELSE setupPc' = "idle" /\ setupPos' = setupPos /\ setupResult' = "returned"

\* create_index calling create whether or not the collection exists; the
\* backend refuses to create a collection that exists
CreateIndexUnchecked(up, ok) ==
    /\ setupPc = "create"
    /\ LET key == IndexKeys[setupPos]
       IN IF ~up
          THEN /\ setupPc' = "idle" /\ setupResult' = "exists raised"
               /\ UNCHANGED <<stores, setupPos, setupCreated>>
          ELSE IF ok /\ stores[key] = Absent
          THEN /\ stores' = [stores EXCEPT ![key] = IndexBody(key)]
               /\ setupCreated' = Append(setupCreated, key)
               /\ SetupNext
          ELSE /\ setupPc' = "idle" /\ setupResult' = "create raised"
               /\ UNCHANGED <<stores, setupPos, setupCreated>>
    /\ UNCHANGED setupBefore
\* create_index (ingest.py:79-92) for the next collection of the loop
\* (ingest.py:98-104): nothing to do if it exists, else it is created or the
\* failure of the creation is raised again; exists itself may raise
CreateIndex(up, ok) ==
    /\ setupPc = "create"
    /\ LET key == IndexKeys[setupPos]
       IN IF ~up
          THEN /\ setupPc' = "idle" /\ setupResult' = "exists raised"
               /\ UNCHANGED <<stores, setupPos, setupCreated>>
          ELSE IF stores[key] # Absent
          THEN /\ SetupNext
               /\ UNCHANGED <<stores, setupCreated>>
          ELSE IF ok
          THEN /\ stores' = [stores EXCEPT ![key] = IndexBody(key)]
               /\ setupCreated' = Append(setupCreated, key)
               /\ SetupNext
          ELSE /\ setupPc' = "idle" /\ setupResult' = "create raised"
               /\ UNCHANGED <<stores, setupPos, setupCreated>>
    /\ UNCHANGED setupBefore

\* between two set-ups another tool creates or deletes a collection
OtherTool(key, body) ==
    /\ setupPc = "idle"
    /\ stores' = [stores EXCEPT ![key] = body]
    /\ UNCHANGED <<setupPc, setupPos, setupBefore, setupCreated, setupResult>>

NextSetup ==
    \/ \E ok \in BOOLEAN : SetupOpensearch(ok)
    \/ \E up \in BOOLEAN, ok \in BOOLEAN : CreateIndex(up, ok)
    \/ \E key \in {"runs", "jobs", "patterns"}, body \in {ForeignBody, Absent} :
          OtherTool(key, body)

(***************************************************************************)
(* Claims about the set-up                                                 *)
(***************************************************************************)

\* the collections that were missing when the set-up began, in order
Missing == SelectSeq(IndexKeys, LAMBDA k : setupBefore[k] = Absent)

\* during and after a set-up the collections it found are as it found them,
\* and it created missing ones only, in order, with the configured body
C25_StateInv ==
    (setupPc = "create" \/ setupResult # "none") =>
        /\ \A k \in DOMAIN stores :
              setupPc = "create" /\ setupBefore[k] # Absent => stores[k] = setupBefore[k]
        /\ \A i \in 1..Len(setupCreated) :
              /\ i <= Len(Missing) /\ setupCreated[i] = Missing[i]
              /\ setupPc = "create" => stores[setupCreated[i]] = IndexBody(setupCreated[i])
        /\ setupResult = "returned" => setupCreated = Missing

\* a collection that exists never makes the set-up fail, and the failed
\* creation of a missing one ends the set-up with the error
C25_StepInv ==
    setupPc = "create" =>
        LET key == IndexKeys[setupPos]
        IN /\ setupResult' = "create raised" =>
                  stores[key] = Absent /\ stores' = stores /\ setupPc' = "idle"
           /\ (stores[key] # Absent /\ setupResult' # "exists raised") =>
                  stores' = stores /\ setupResult' \in {"none", "returned"}

\* C25: ensureCollections is idempotent: running setup when some or all of
\* the collections runs, jobs, patterns already exist creates only the
\* missing ones, leaves existing ones unchanged and does not fail; a creation
\* failure for a collection that does not exist propagates as a fatal error
\* to the caller.
C25_SetupIdempotent == []C25_StateInv /\ [][C25_StepInv]_setupVars

\* C25 witness: a set-up that found jobs with a foreign body and the two
\* others missing has returned, having created runs and patterns only
C25_Witness ==
    /\ setupResult = "returned"
    /\ setupBefore["jobs"] = ForeignBody
    /\ setupBefore["runs"] = Absent /\ setupBefore["patterns"] = Absent
    /\ setupCreated = <<"runs", "patterns">>
    /\ stores["jobs"] = ForeignBody

\* C25 witness of the second set-up: all collections existed and none was
\* created
C25_WitnessAllExist ==
    /\ setupResult = "returned"
    /\ \A k \in DOMAIN setupBefore : setupBefore[k] # Absent
    /\ setupCreated = <<>>

(***************************************************************************)
(* Further claims about ingestion                                          *)
(***************************************************************************)

\* the writes attempted so far are the first of the writes an execution
\* attempts in all: for each run its jobs in fetched order, each preceded by
\* its cluster document if it has a failure reason, then the run document
C26_StateInv ==
    /\ IsPrefix(Attempted(writes), ExpectedWrites(UpstreamRuns, mining))
    /\ \A p \in 1..Len(passes) :
          IsPrefix(Attempted(passes[p].writes),
                   ExpectedWrites(UpstreamRuns, passes[p].mining))
    /\ \A i \in 1..Len(writes) :
          (writes[i].coll = "jobs" /\ "failure_template" \in DOMAIN writes[i].doc.fields) =>
              /\ i > 1
              /\ writes[i - 1].coll = "patterns"
              /\ writes[i - 1].doc.fields["failure_template"] =
                     writes[i].doc.fields["failure_template"]

\* one write at a time: a step attempts at most one write, added after the
\* ones attempted before
C26_StepInv ==
    \/ writes' = writes
    \/ writes' = <<>>
    \/ Len(writes') = Len(writes) + 1 /\ SubSeq(writes', 1, Len(writes)) = writes

\* C26: within one ingestion execution, writes are strictly sequential and
\* ordered: for each job with a failure reason the cluster document is
\* written before that job's document, all job documents of a run are written
\* in fetched order before the run document, and no write for run k+1 happens
\* before the run document of run k has been attempted.
C26_WritesOrdered == []C26_StateInv /\ [][C26_StepInv]_ingestVars

\* C26 witness: an execution with the miner attempted its nine writes: three
\* cluster documents, each before its job, four jobs, then r1, then r2
C26_Witness ==
    /\ Len(passes) >= 1
    /\ passes[1].completed /\ passes[1].mining
    /\ Attempted(passes[1].writes) =
          << <<"patterns", "">>, <<"jobs", "j1">>, <<"patterns", "">>, <<"jobs", "j2">>,
             <<"patterns", "">>, <<"jobs", "j3">>, <<"jobs", "j4">>,
             <<"runs", "r1">>, <<"runs", "r2">> >>

\* a step in which the index rejected the write of a cluster document
PatternRejected == Rejected /\ writes'[Len(writes')].coll = "patterns"

\* the miner has taken the message: the cluster of the rejected document is
\* in the miner with the size the document states
MinerHolds(m, failure_template) ==
    LET id == failure_template.fields["cluster_id"].n
    IN /\ id \in 1..Len(m.clusters)
       /\ m.clusters[id].size = failure_template.fields["cluster_size"].n

\* when the cluster document is rejected the miner has changed, the patterns
\* collection has not, the rejection is counted, and the job dict carries the
\* template on its way to insert_job
C29_StepInv ==
    PatternRejected =>
        LET failure_template == writes'[Len(writes')].doc.fields["failure_template"]
        IN /\ miner' # miner
           /\ MinerHolds(miner', failure_template)
           /\ index' = index
           /\ failures' = failures + 1
           /\ ingPc' = "job"
           /\ "failure_template" \in DOMAIN jobDoc'.fields
           /\ jobDoc'.fields["failure_template"] = failure_template

\* the write after a rejected cluster document is the job document with that
\* template embedded
C29_StateInv ==
    \A i \in 1..Len(writes) :
        (writes[i].coll = "patterns" /\ ~writes[i].ok /\ i < Len(writes)) =>
            /\ writes[i + 1].coll = "jobs"
            /\ "failure_template" \in DOMAIN writes[i + 1].body.fields
            /\ writes[i + 1].body.fields["failure_template"] =
                   writes[i].doc.fields["failure_template"]

\* C29: when the write of a cluster document to the patterns collection
\* fails, the miner's cluster state has already been mutated (cluster created
\* or match count incremented), the failure is only logged, and the job
\* document is still written with the returned failure_template embedded;
\* hence the patterns collection can lack or lag a cluster that job documents
\* reference.
C29_PatternFailureKeepsTemplate ==
    []C29_StateInv /\ [][C29_StepInv]_<<ingestVars, minerVars>>

\* C29 witness: the job document j1 is stored with a template whose cluster
\* the patterns collection does not hold, its cluster document having been
\* rejected
C29_Witness ==
    /\ "j1" \in DOMAIN index.jobs
    /\ "failure_template" \in DOMAIN index.jobs["j1"].fields
    /\ index.jobs["j1"].fields["failure_template"].fields["cluster_id"].n
           \notin DOMAIN index.patterns
    /\ \E i \in 1..Len(writes) : writes[i].coll = "patterns" /\ ~writes[i].ok

(***************************************************************************)
(* Further claims about sanitization                                       *)
(***************************************************************************)

\* C27: sanitize is idempotent: for every document d (including one where a
\* shape-variable field holds a list whose elements are objects that
\* themselves contain a shape-variable field), sanitize(sanitize(d)) equals
\* sanitize(d).
C27_SanitizeIdempotent ==
    sanOut # NoDoc => sanitize_document(sanOut) = sanOut

(***************************************************************************)
(* The ingestion job function: run_task over the list of suites            *)
(***************************************************************************)

MaxTaskRuns == 2    \* executions of run_task

\* SUITES (scheduler.py:21-31)
SUITES ==
    <<"smoke", "fs", "rados", "rbd", "krbd", "orch", "rgw", "crimson-rados",
      "powercycle">>

\* what process() can raise: get_data (ValueError), paddle_connect
\* (RuntimeError), the configuration readers, the template miner
ProcessErrors == {"fetch", "connectivity", "configuration", "miner"}

\* the records process() writes itself before it raises: get_data logs the
\* status of a failed fetch (fetcher.py:39-42)
InnerRecords(error, suite) ==
    IF error = "fetch" THEN <<[level |-> "error", text |-> "Failed to fetch data",
                               suite |-> suite]>>
    ELSE <<>>

VARIABLES
    taskPc,        \* "idle" or "loop"
    taskSuite,     \* position in SUITES
    taskLog,       \* the records of this execution's log file
    taskDone,      \* the suites process() returned for
    taskReturns    \* how each execution ended

taskVars == <<taskPc, taskSuite, taskLog, taskDone, taskReturns>>

InitTask ==
    /\ taskPc = "idle"
    /\ taskSuite = 0
    /\ taskLog = <<>>
    /\ taskDone = <<>>
    /\ taskReturns = <<>>

\* run_task up to the loop (scheduler.py:38-48): a new log file
RunTask ==
    /\ taskPc = "idle"
    /\ Len(taskReturns) < MaxTaskRuns
    /\ taskPc' = "loop"
    /\ taskSuite' = 1
    /\ taskLog' = <<>>
    /\ taskDone' = <<>>
    /\ UNCHANGED taskReturns

\* the record of an execution that ended
TaskReturn(error, log, done) ==
    [error |-> error, failedAt |-> IF error = "none" THEN 0 ELSE taskSuite,
     log |-> log, done |-> done]

\* run_task with the try inside the loop: the next suite is processed after
\* an error
ProcessSuiteContinues(outcome) ==
    /\ taskPc = "loop"
    /\ LET suite == SUITES[taskSuite]
           started == Append(taskLog, [level |-> "debug", text |-> "[TASK JOB START]",
                                       suite |-> suite])
           logged == IF outcome = "ok" THEN started
                     ELSE Append(started \o InnerRecords(outcome, suite),
                                 [level |-> "error", text |-> "[TASK JOB ERROR]",
                                  suite |-> suite])
           done == IF outcome = "ok" THEN Append(taskDone, suite) ELSE taskDone
       IN IF taskSuite < Len(SUITES)
          THEN /\ taskLog' = logged
               /\ taskDone' = done
               /\ taskSuite' = taskSuite + 1
               /\ UNCHANGED <<taskPc, taskReturns>>
          ELSE LET ended == Append(logged, [level |-> "debug", text |-> "[TASK JOB END]",
                                            suite |-> ""])
               IN /\ taskLog' = ended
                  /\ taskDone' = done
                  /\ taskPc' = "idle"
                  /\ taskReturns' = Append(taskReturns,
                                           TaskReturn(IF outcome = "ok" THEN "none"
                                                                ELSE outcome, ended, done))
                  /\ UNCHANGED taskSuite
\* one iteration of the loop over SUITES inside the try (scheduler.py:47-63):
\* process() returns and the loop goes on, or it raises and the except logs
\* the error; the finally logs the end before run_task returns
ProcessSuite(outcome) ==
    /\ taskPc = "loop"
    /\ LET suite == SUITES[taskSuite]
           started == Append(taskLog, [level |-> "debug", text |-> "[TASK JOB START]",
                                       suite |-> suite])
       IN IF outcome = "ok" /\ taskSuite < Len(SUITES)
          THEN /\ taskLog' = started
               /\ taskDone' = Append(taskDone, suite)
               /\ taskSuite' = taskSuite + 1
               /\ UNCHANGED <<taskPc, taskReturns>>
          ELSE LET logged == IF outcome = "ok" THEN started
                             ELSE Append(started \o InnerRecords(outcome, suite),
                                         [level |-> "error", text |-> "[TASK JOB ERROR]",
                                          suite |-> suite])
                   ended == Append(logged, [level |-> "debug", text |-> "[TASK JOB END]",
                                            suite |-> ""])
                   done == IF outcome = "ok" THEN Append(taskDone, suite) ELSE taskDone
               IN /\ taskLog' = ended
                  /\ taskDone' = done
                  /\ taskPc' = "idle"
                  /\ taskReturns' = Append(taskReturns,
                                           TaskReturn(IF outcome = "ok" THEN "none"
                                                                ELSE outcome, ended, done))
                  /\ UNCHANGED taskSuite

NextTask ==
    \/ RunTask
    \/ \E outcome \in {"ok"} \cup ProcessErrors : ProcessSuite(outcome)

(***************************************************************************)
(* Claims about the ingestion job function                                 *)
(***************************************************************************)

\* the records of a log with the given text
RecordsOf(log, text) == SelectSeq(log, LAMBDA rec : rec.text = text)

\* an execution in which processing suite i raised has one error record of
\* the job, for suite i; it started the suites 1..i and no other, processed
\* the suites 1..i-1, and returned after the end record
C28_StateInv ==
    \A e \in 1..Len(taskReturns) :
        LET ret == taskReturns[e]
            i == ret.failedAt
        IN ret.error # "none" =>
              /\ Len(RecordsOf(ret.log, "[TASK JOB ERROR]")) = 1
              /\ RecordsOf(ret.log, "[TASK JOB ERROR]")[1].suite = SUITES[i]
              /\ Len(RecordsOf(ret.log, "[TASK JOB START]")) = i
              /\ \A k \in 1..i : RecordsOf(ret.log, "[TASK JOB START]")[k].suite = SUITES[k]
              /\ ret.done = SubSeq(SUITES, 1, i - 1)
              /\ ret.log[Len(ret.log)].text = "[TASK JOB END]"

\* the step in which process() raises ends the execution
C28_StepInv ==
    (Len(taskReturns') = Len(taskReturns) + 1
        /\ taskReturns'[Len(taskReturns')].error # "none") => taskPc' = "idle"

OpensSnapshot(c) == c = "task"

\* the workers that are inside a job function that opens the snapshot
SnapshotWriters ==
    {w \in Classes \X Slots : OpensSnapshot(w[1]) /\ inst[w[1]][w[2]].pc = "body"}

\* C30: within a single orchestrator process the persisted cluster snapshot
\* has at most one writer at any time: only the ingestion job class loads and
\* mutates it, the report job class never touches it, and successive suites
\* of one ingestion execution load and mutate it one after another, never
\* concurrently.
C30_SingleSnapshotWriter ==
    /\ Cardinality(SnapshotWriters) <= 1
    /\ \A w \in SnapshotWriters : w[1] = "task"

\* C30 witness: an ingestion job is the one writer of the snapshot while a
\* report job runs beside it and a further ingestion trigger was skipped
C30_Witness ==
    /\ Cardinality(SnapshotWriters) = 1
    /\ \E s \in Slots : inst["report"][s].pc = "body"
    /\ ev["task"].kind = "skipped" /\ ev["task"].busy

(***************************************************************************)
(* Specifications                                                          *)
(***************************************************************************)

vars == <<schedVars, minerVars, sanVars, ingestVars, repVars, fetchVars, sumVars,
         logVars, setupVars, taskVars>>

Init ==
    /\ InitSched
    /\ InitMiner
    /\ IdleSanitize
    /\ InitIngest
    /\ InitReport
    /\ InitFetch
    /\ InitSum
    /\ InitLog
    /\ InitSetup
    /\ InitTask

\* what each part of the program leaves alone
notSched == <<minerVars, sanVars, ingestVars, repVars, fetchVars, sumVars, logVars,
               setupVars, taskVars>>
notMiner == <<schedVars, sanVars, ingestVars, repVars, fetchVars, sumVars, logVars,
               setupVars, taskVars>>
notSanitize == <<schedVars, minerVars, ingestVars, repVars, fetchVars, sumVars, logVars,
                  setupVars, taskVars>>
notIngest == <<schedVars, sanVars, repVars, fetchVars, sumVars, logVars, setupVars, taskVars>>
notReport == <<schedVars, minerVars, sanVars, ingestVars, fetchVars, sumVars, logVars,
                setupVars, taskVars>>
notFetch == <<schedVars, minerVars, sanVars, ingestVars, repVars, sumVars, logVars,
               setupVars, taskVars>>
notSum == <<schedVars, minerVars, sanVars, ingestVars, repVars, fetchVars, logVars,
             setupVars, taskVars>>
notLog == <<schedVars, minerVars, sanVars, ingestVars, repVars, fetchVars, sumVars,
             setupVars, taskVars>>
notSetup == <<schedVars, minerVars, sanVars, ingestVars, repVars, fetchVars, sumVars,
               logVars, taskVars>>
notTask == <<schedVars, minerVars, sanVars, ingestVars, repVars, fetchVars, sumVars,
              logVars, setupVars>>

\* the orchestrator alone
SchedSpec == Init /\ [][NextSched /\ UNCHANGED notSched]_vars

\* Worker threads are scheduled by the operating system and a job function
\* returns; the main thread runs its handler once the executor has drained.
\* Triggers and signals are events of the environment: no fairness.
SchedFairSpec ==
    /\ SchedSpec
    /\ \A c \in Classes, s \in Slots : WF_vars(WorkerStep(c, s) /\ UNCHANGED notSched)
    /\ WF_vars(ShutdownStep /\ UNCHANGED notSched)

\* the template miner alone
MinerSpec == Init /\ [][NextMiner /\ UNCHANGED notMiner]_vars

\* sanitize_document over the documents of Docs
SanitizeInit ==
    /\ InitSched
    /\ InitMiner
    /\ InitSanitize
    /\ InitIngest
    /\ InitReport
    /\ InitFetch
    /\ InitSum
    /\ InitLog
    /\ InitSetup
    /\ InitTask
SanitizeSpec == SanitizeInit /\ [][NextSanitize /\ UNCHANGED notSanitize]_vars

\* executions of process(), one after the other (the task class runs one
\* instance at a time)
IngestSpec == Init /\ [][NextIngest /\ UNCHANGED notIngest]_vars

\* report executions, one after the other
ReportSpec == Init /\ [][NextReport /\ UNCHANGED notReport]_vars

\* calls of the source client, one after the other
FetchSpec == Init /\ [][NextFetch /\ UNCHANGED notFetch]_vars

\* teuthology_report over the lists of HitLists
SumSpec == Init /\ [][NextSum /\ UNCHANGED notSum]_vars

\* insertions of log files, one after the other
LogSpec == Init /\ [][NextLog /\ UNCHANGED notLog]_vars

\* set-ups of the collections, one after the other
SetupSpec == Init /\ [][NextSetup /\ UNCHANGED notSetup]_vars

\* executions of run_task, one after the other
TaskSpec == Init /\ [][NextTask /\ UNCHANGED notTask]_vars

=============================================================================
